---------------------------- MODULE Spec2Model ----------------------------
(* A model of the scanning and pacing engine of the toolbox:               *)
(*   core/src/ratelimiter.rs        RateLimiter (semaphore + refill task)  *)
(*   modules/port-scan/src/lib.rs   scan_connect_with_limits, port tasks,  *)
(*                                  parse_ports, resolve_best_effort       *)
(*   toolbox/src/main.rs            Commands::Scan, single and multi target*)
(* Specifications: Spec (the scan command), SpecFair (the scan command    *)
(* under a scheduler that keeps running), SpecHost (one host scan with     *)
(* fixed connect outcomes), SpecBackoff (the backoff delay), SpecParse     *)
(* (parse_ports), SpecResolve (resolve_best_effort), SpecTop (top_ports),  *)
(* SpecCidr (expand_cidr), SpecInterval (the interval of the refill task   *)
(* and of the ticker) and SpecDiscover (the discover command and           *)
(* discover_hosts of modules/host-discovery/src/lib.rs).                   *)
EXTENDS Integers, Sequences, FiniteSets, TLC

(***************************************************************************)
(* Bounds of the model.                                                    *)
(***************************************************************************)
\* number of targets in the targets file of a multi-target run
NumTargets == 2
\* number of ports of the scan of a single target (ports are 1..n)
NumPortsSingle == 3
\* number of ports scanned on every target of a multi-target run
NumPortsMulti == 2
\* largest value of --retries explored by the scan specification
MaxRetries == 1
\* number of refill ticks of the rate limiter that are explored
MaxTicks == 3
\* largest attempt number whose backoff delay is computed in SpecBackoff
MaxBackoffAttempt == 8
\* largest number of comma-separated tokens of a port spec in SpecParse
MaxTokens == 3
\* largest value of dns_retries explored in SpecResolve
MaxDnsRetries == 3
\* largest argument of top_ports explored in SpecTop (the curated list
\* holds 66 ports)
MaxTopN == 68
\* largest number of candidate addresses of a directly called sweep
MaxCandidates == 3
\* largest number of host bits of a block expanded in SpecCidr
MaxHostBits == 10
\* largest rate whose interval is computed in SpecInterval
MaxRate == 1100

(***************************************************************************)
(* 64-bit unsigned integers.  TLC's integers are 32 bits wide, so a u64 is *)
(* a sequence of four 16-bit limbs, least significant first.               *)
(***************************************************************************)
Limb == 2 ^ 16

U64(n) == <<n % Limb, (n \div Limb) % Limb, 0, 0>>

\* u64::MAX
U64Max == <<Limb - 1, Limb - 1, Limb - 1, Limb - 1>>

\* 2^e as a u64, 0 <= e <= 63
U64Pow2(e) == [i \in 1..4 |-> IF i = (e \div 16) + 1 THEN 2 ^ (e % 16) ELSE 0]

\* a <= b
U64Leq(a, b) ==
    LET d == {i \in 1..4 : a[i] # b[i]}
    IN  d = {} \/ (LET top == CHOOSE i \in d : \A j \in d : j <= i
                   IN  a[top] < b[top])

\* the limbs and the carry out of a * m, for a small multiplier m (m <= 2^6)
U64MulSmall(a, m) ==
    LET p1 == a[1] * m
        p2 == a[2] * m + (p1 \div Limb)
        p3 == a[3] * m + (p2 \div Limb)
        p4 == a[4] * m + (p3 \div Limb)
    IN  [limbs |-> <<p1 % Limb, p2 % Limb, p3 % Limb, p4 % Limb>>,
         carry |-> p4 \div Limb]

\* the limbs and the carry out of a + b
U64AddCarry(a, b) ==
    LET s1 == a[1] + b[1]
        s2 == a[2] + b[2] + (s1 \div Limb)
        s3 == a[3] + b[3] + (s2 \div Limb)
        s4 == a[4] + b[4] + (s3 \div Limb)
    IN  [limbs |-> <<s1 % Limb, s2 % Limb, s3 % Limb, s4 % Limb>>,
         carry |-> s4 \div Limb]

\* a / 4 (u64 division truncates)
U64Div4(a) ==
    [i \in 1..4 |-> (a[i] \div 4) + (IF i < 4 THEN (a[i + 1] % 4) * (Limb \div 4) ELSE 0)]

\* a - 1, for a > 0
U64Pred(a) ==
    LET k == CHOOSE i \in 1..4 : a[i] # 0 /\ \A j \in 1..(i - 1) : a[j] = 0
    IN  [i \in 1..4 |-> IF i < k THEN Limb - 1 ELSE IF i = k THEN a[i] - 1 ELSE a[i]]

U64Zero == U64(0)

(***************************************************************************)
(* The backoff delay of the retry loop, port-scan/src/lib.rs:95-101.       *)
(***************************************************************************)
\* attempts.min(6)
CapShift(attempts) == IF attempts < 6 THEN attempts ELSE 6

\* u64::saturating_mul
SaturatingMul(a, m) ==
    LET r == U64MulSmall(a, m)
    IN  IF r.carry > 0 THEN U64Max ELSE r.limbs

\* let exp = base.saturating_mul(1u64 << (attempts.min(6)));
BackoffExp(base, attempts) == SaturatingMul(base, 2 ^ CapShift(attempts))

\* a jitter range one value too wide: exp / 4 + 2
JitterEndWide(exp) == U64AddCarry(U64Div4(exp), U64(2)).limbs

\* the exclusive upper end of the jitter range: exp / 4 + 1
JitterEnd(exp) == U64AddCarry(U64Div4(exp), U64(1)).limbs

\* thread_rng().gen_range(0..(exp / 4 + 1)): any value below JitterEnd(exp).
\* The range is sampled at both of its ends; it is enumerated whole when it
\* holds at most four values.
JitterRange(exp) ==
    UNION {{j \in {U64Zero, U64(1), U64(2), U64(3), last}
                \cup (IF last # U64Zero THEN {U64Pred(last)} ELSE {}) :
            U64Leq(j, last)} :
           last \in {U64Pred(end) : end \in {JitterEnd(exp)}}}

\* exp + jitter on u64: the sum when it fits; otherwise the build decides,
\* a panic with overflow checks (debug profile), the wrapped sum without.
SleepMillis(exp, jitter) ==
    LET r == U64AddCarry(exp, jitter)
    IN  IF r.carry = 0
        THEN {[kind |-> "ok", millis |-> r.limbs]}
        ELSE {[kind |-> "panic", millis |-> U64Zero],
              [kind |-> "wrapped", millis |-> r.limbs]}


(***************************************************************************)
(* Vec::sort_unstable on the received ports.                               *)
(***************************************************************************)
RECURSIVE InsertSorted(_, _)
InsertSorted(s, x) ==
    IF s = <<>> THEN <<x>>
    ELSE IF x <= Head(s) THEN <<x>> \o s
    ELSE <<Head(s)>> \o InsertSorted(Tail(s), x)

\* the received ports left in arrival order
SortNone(s) == s

RECURSIVE SortUnstable(_)
SortUnstable(s) ==
    IF s = <<>> THEN <<>> ELSE InsertSorted(SortUnstable(Tail(s)), Head(s))

(***************************************************************************)
(* parse_ports, lib.rs:16-37.  A text is a sequence of characters.         *)
(***************************************************************************)
Digits == <<"0", "1", "2", "3", "4", "5", "6", "7", "8", "9">>
IsDigit(c) == \E d \in 1..10 : Digits[d] = c
DigitVal(c) == (CHOOSE d \in 1..10 : Digits[d] = c) - 1

\* the position of the first c in text, 0 when there is none
FirstIndex(text, c) ==
    IF \E i \in 1..Len(text) : text[i] = c
    THEN CHOOSE i \in 1..Len(text) : text[i] = c /\ \A j \in 1..(i - 1) : text[j] # c
    ELSE 0

\* spec.split(','): the pieces between the commas, the empty ones too
RECURSIVE SplitComma(_)
SplitComma(text) ==
    LET k == FirstIndex(text, ",")
    IN  IF k = 0 THEN <<text>>
        ELSE <<SubSeq(text, 1, k - 1)>> \o SplitComma(SubSeq(text, k + 1, Len(text)))

\* str::trim: white space is taken off both ends
RECURSIVE TrimStart(_)
TrimStart(text) ==
    IF text # <<>> /\ Head(text) = " " THEN TrimStart(Tail(text)) ELSE text

RECURSIVE TrimEnd(_)
TrimEnd(text) ==
    IF text # <<>> /\ text[Len(text)] = " "
    THEN TrimEnd(SubSeq(text, 1, Len(text) - 1)) ELSE text

Trim(text) == TrimEnd(TrimStart(text))

\* the parts with the empty ones left in
PartsKeepEmpty(spec) ==
    LET pieces == SplitComma(spec)
    IN  [i \in 1..Len(pieces) |-> Trim(pieces[i])]

\* spec.split(',').map(|s| s.trim()).filter(|s| !s.is_empty())
Parts(spec) ==
    LET pieces == SplitComma(spec)
    IN  SelectSeq([i \in 1..Len(pieces) |-> Trim(pieces[i])], LAMBDA t : t # <<>>)

\* part.split_once('-'): the text before and after the first '-'
SplitOnce(part) ==
    LET k == FirstIndex(part, "-")
    IN  IF k = 0 THEN [found |-> FALSE, start |-> part, end |-> <<>>]
        ELSE [found |-> TRUE, start |-> SubSeq(part, 1, k - 1),
              end |-> SubSeq(part, k + 1, Len(part))]

U16Max == 2 ^ 16 - 1

ParseOk(n) == [ok |-> TRUE, val |-> n, msg |-> <<>>]
ParseErr(m) == [ok |-> FALSE, val |-> 0, msg |-> <<m>>]

\* the digit loop of u16::from_str: every character must be a digit, and
\* result * 10 + digit must stay within u16
RECURSIVE ParseDigits(_, _)
ParseDigits(text, acc) ==
    IF text = <<>> THEN ParseOk(acc)
    ELSE IF ~IsDigit(Head(text)) THEN ParseErr("invalid digit found in string")
    ELSE IF acc * 10 + DigitVal(Head(text)) > U16Max
         THEN ParseErr("number too large to fit in target type")
    ELSE ParseDigits(Tail(text), acc * 10 + DigitVal(Head(text)))

\* start.parse::<u16>(): an optional '+', then at least one digit
ParseU16(text) ==
    IF text = <<>> THEN ParseErr("cannot parse integer from empty string")
    ELSE LET body == IF Head(text) = "+" THEN Tail(text) ELSE text
         IN  IF body = <<>> THEN ParseErr("invalid digit found in string")
             ELSE ParseDigits(body, 0)

\* a range test that only looks at the order of the endpoints
RangeInvalidOrderOnly(s, e) == s > e

\* if s == 0 || e == 0 || s > e
RangeInvalid(s, e) == s = 0 \/ e = 0 \/ s > e

\* the half-open range s..e
RangeExclusive(s, e) == [i \in 1..(e - s) |-> s + i - 1]

\* s..=e
RangeInclusive(s, e) == [i \in 1..(e - s + 1) |-> s + i - 1]

\* no duplicate is removed
DedupNone(s) == s

\* Vec::dedup: of consecutive equal elements only the first is kept
RECURSIVE Dedup(_)
Dedup(s) ==
    IF Len(s) <= 1 THEN s
    ELSE IF s[1] = s[2] THEN Dedup(Tail(s))
    ELSE <<s[1]>> \o Dedup(Tail(s))

\* Ok(ports) and Err(anyhow!(..)): an error carries a message and no ports
ReturnOk(ports) == [kind |-> "Ok", ports |-> ports]
ReturnErr(msg) == [kind |-> "Err", msg |-> msg]

\* anyhow!("invalid port range: {}", part), anyhow!("invalid port: {}", part)
InvalidRangeMsg(part) == <<"invalid port range: ">> \o part
InvalidPortMsg(part) == <<"invalid port: ">> \o part

\* lib.rs:19-32, the body of the loop for one part: the error it returns,
\* or the ports it appends
ParsePartResult(part) ==
    LET sp == SplitOnce(part)
    IN  IF sp.found
        THEN LET s == ParseU16(sp.start)
                 e == ParseU16(sp.end)
             IN  IF ~s.ok THEN [err |-> TRUE, msg |-> s.msg, ports |-> <<>>]
                 ELSE IF ~e.ok THEN [err |-> TRUE, msg |-> e.msg, ports |-> <<>>]
                 ELSE IF RangeInvalid(s.val, e.val)
                      THEN [err |-> TRUE, msg |-> InvalidRangeMsg(part), ports |-> <<>>]
                 ELSE [err |-> FALSE, msg |-> <<>>, ports |-> RangeInclusive(s.val, e.val)]
        ELSE LET q == ParseU16(part)
             IN  IF ~q.ok THEN [err |-> TRUE, msg |-> q.msg, ports |-> <<>>]
                 ELSE IF q.val = 0
                      THEN [err |-> TRUE, msg |-> InvalidPortMsg(part), ports |-> <<>>]
                 ELSE [err |-> FALSE, msg |-> <<>>, ports |-> <<q.val>>]

\* the decimal digits of n, as u16::to_string writes them
RECURSIVE Decimal(_)
Decimal(n) ==
    IF n < 10 THEN <<Digits[n + 1]>> ELSE Decimal(n \div 10) \o <<Digits[(n % 10) + 1]>>

(***************************************************************************)
(* parse_ports as the commands call it: the whole function on a text.      *)
(***************************************************************************)
\* lib.rs:17-36: the loop over the parts, then sort, dedup and Ok(ports)
RECURSIVE ParseParts(_, _)
ParseParts(parts, ports) ==
    IF parts = <<>> THEN ReturnOk(Dedup(SortUnstable(ports)))
    ELSE LET r == ParsePartResult(Head(parts))
         IN  IF r.err THEN ReturnErr(r.msg)
             ELSE ParseParts(Tail(parts), ports \o r.ports)

\* a parser that answers a spec it cannot read with the ports 80, 443, 22
ParsePortsLenient(spec) ==
    LET r == ParseParts(Parts(spec), <<>>)
    IN  IF r.kind = "Err" THEN ReturnOk(<<80, 443, 22>>) ELSE r

\* pub fn parse_ports(spec: &str) -> Result<Vec<u16>>
ParsePorts(spec) == ParseParts(Parts(spec), <<>>)

(***************************************************************************)
(* The scan command: configuration.                                        *)
(***************************************************************************)
\* Option<usize>: None is <<>>, Some(n) is <<n>>
None == <<>>
Some(n) == <<n>>

\* --retry-delay-ms: the default of 50 ms, and a delay whose backoff sum
\* does not fit in 64 bits
RetryDelays == {U64(50), U64Max}

Max(a, b) == IF a >= b THEN a ELSE b

\* The command lines explored: a single target or a targets file, with
\* --concurrency, --host-concurrency, --max-connections, --qps, --retries
\* and --retry-delay-ms.  The retry delay is only read when a retry sleeps.
\* the text given to --ports: "3-1", ",", or the range "1-n"
ScanPortSpec(multi, ports_empty, ports_bad) ==
    IF ports_bad THEN <<"3", "-", "1">>
    ELSE IF ports_empty THEN <<",">>
    ELSE <<"1", "-">> \o Decimal(IF multi THEN NumPortsMulti ELSE NumPortsSingle)

\* ports_empty: --ports "," is given, a spec without tokens; ports_bad:
\* --ports "3-1" is given, a range out of order.  ports_vec is what
\* parse_ports returns for the text given to --ports (main.rs:784).  A host
\* concurrency of 0, an empty port list and a bad port spec are explored
\* with the other options at their defaults.
Configs ==
    { c \in [multi : BOOLEAN,
             concurrency : {1, 2},
             host_concurrency : {0, 1, 2},
             max_connections : {None, Some(1)},
             qps : {0, 1},
             retries : 0..MaxRetries,
             retry_delay : RetryDelays,
             ports_empty : BOOLEAN,
             ports_bad : BOOLEAN,
             ports_vec : {ParsePorts(ScanPortSpec(m, e, b)) :
                            m \in BOOLEAN, e \in BOOLEAN, b \in BOOLEAN}] :
        /\ c.ports_vec = ParsePorts(ScanPortSpec(c.multi, c.ports_empty, c.ports_bad))
        /\ (~c.multi => c.host_concurrency = 1 /\ c.max_connections = None)
        /\ (c.retries = 0 => c.retry_delay = U64(50))
        /\ ((c.host_concurrency = 0 \/ c.ports_empty) =>
                c.max_connections = None /\ c.qps = 0 /\ c.retries = 0)
        /\ (c.ports_empty => c.concurrency = 1 /\ c.host_concurrency # 0)
        /\ (c.ports_bad => /\ c.concurrency = 1 /\ c.host_concurrency = 1
                           /\ c.max_connections = None /\ c.qps = 0 /\ c.retries = 0
                           /\ ~c.ports_empty) }

\* the targets scanned: the lines of the targets file, or the one target
TargetsOf(c) == IF c.multi THEN 1..NumTargets ELSE {1}

\* main.rs:783-784: what port_scan::parse_ports(&spec) returns
PortsResult(c) == c.ports_vec

\* ports_vec, as a set: the ports parse_ports returned
PortsOf(c) ==
    IF c.ports_vec.kind = "Ok"
    THEN {c.ports_vec.ports[i] : i \in 1..Len(c.ports_vec.ports)} ELSE {}

AllHosts == 1..NumTargets
AllPorts == 1..Max(NumPortsSingle, NumPortsMulti)
AllTasks == AllHosts \X AllPorts

\* let total_connections = max_connections.unwrap_or_else(|| concurrency
\*     .saturating_mul(host_concurrency.max(1))); total_connections.max(1)
TotalConnections(c) ==
    Max(IF c.max_connections = None
        THEN c.concurrency * Max(c.host_concurrency, 1)
        ELSE c.max_connections[1], 1)

\* a host admission semaphore built from the connection budget
HostConcTotal(c) ==
    Max(IF c.max_connections = None
        THEN c.concurrency * Max(c.host_concurrency, 1)
        ELSE c.max_connections[1], 1)

\* let host_conc = host_concurrency.max(1);
HostConc(c) == Max(c.host_concurrency, 1)

\* Semaphore::new(per_host_concurrency.max(1))
PerHostBudget(c) == Max(c.concurrency, 1)

\* let interval_ms = (1000u32 / tokens_per_sec.max(1)) as u64;
IntervalMs(tokens_per_sec) == 1000 \div Max(tokens_per_sec, 1)

(***************************************************************************)
(* tokio::sync::Semaphore, as a count of available permits.                *)
(***************************************************************************)
\* a semaphore that admits a caller whatever its count
SemAvailableAlways(permits) == TRUE

\* acquire / acquire_owned completes only when a permit is available
SemAvailable(permits) == permits > 0

\* a completed acquire takes one permit out of the semaphore
SemTake(permits) == permits - 1

\* a permit that is dropped without going back to the semaphore
SemAddLost(permits) == permits

\* dropping a permit (SemaphorePermit::drop) or add_permits(1)
SemAdd(permits) == permits + 1

\* RateLimiter::acquire: `let _ = self.sem.acquire().await;` binds the
\* acquired SemaphorePermit to `_`, so the permit is dropped at the end of
\* the statement and goes back to the semaphore.
RateAcquireEffect(permits) == SemAdd(SemTake(permits))

VARIABLES
    cfg,            \* the command line of the run
    main_pc,        \* position of main in Commands::Scan
    launched,       \* number of targets whose host task main has spawned
    main_host_sem,  \* main.rs host_sem: host admission permits available
    global,         \* main.rs global: connection permits available
    writer_done,    \* the writer thread has left its loop
    lines,          \* the unbounded channel of output lines (tx, rx)
    sink,           \* what has been written to stdout or the output file
    hpc,            \* position of every host's scan
    host_sem,       \* lib.rs host_sem of every host scan: permits available
    chan,           \* lib.rs (tx, rx): ports sent and not yet received
    open,           \* lib.rs open: ports received so far, in arrival order
    result,         \* the Vec<u16> a finished scan returned (empty before)
    pc,             \* position of every port task
    attempts,       \* lib.rs attempts of every port task
    opened,         \* lib.rs opened of every port task
    host_permit,    \* the port task holds _host_permit
    global_permit,  \* the port task holds Some(_global_permit)
    panicked,       \* port tasks ended by a panic
    n_connect,      \* connects issued by every port task
    n_success,      \* connects that succeeded, per port task
    n_sleep,        \* backoff sleeps started by every port task
    n_rate,         \* rate permits acquired by every port task
    sem,            \* RateLimiter.sem: permits available
    rl_ticks,       \* add_permits(1) calls made by the refill task
    rl_acquired,    \* completed RateLimiter::acquire calls
    bk,             \* the backoff computation under study (SpecBackoff)
    pp,             \* the parse_ports call under study (SpecParse)
    rs,             \* the resolve_best_effort call under study (SpecResolve)
    tp,             \* the top_ports calls under study (SpecTop)
    dh,             \* the discover command and discover_hosts (SpecDiscover)
    cx,             \* the expand_cidr call under study (SpecCidr)
    iv              \* the interval computation under study (SpecInterval)

mainVars == <<main_pc, launched, main_host_sem, global, writer_done, lines, sink>>
hostVars == <<hpc, host_sem, chan, open, result>>
taskVars == <<pc, attempts, opened, host_permit, global_permit, panicked>>
histVars == <<n_connect, n_success, n_sleep, n_rate>>
rlVars   == <<sem, rl_ticks, rl_acquired>>
pureVars == <<bk, pp, rs, tp, dh, cx, iv>>
vars == <<cfg, mainVars, hostVars, taskVars, histVars, rlVars, pureVars>>

Hosts == TargetsOf(cfg)
Ports == PortsOf(cfg)
Tasks == Hosts \X Ports

GlobalConfigured == cfg.multi
RateConfigured == cfg.qps # 0

BkIdle == [phase |-> "idle"]
PpIdle == [phase |-> "idle"]
RsIdle == [phase |-> "idle"]
TpIdle == [phase |-> "idle"]
DhIdle == [phase |-> "idle"]
CxIdle == [phase |-> "idle"]
IvIdle == [phase |-> "idle"]

\* the state when the scan command starts
InitRun ==
    /\ main_pc = "start"
    /\ launched = 0
    /\ main_host_sem = 0
    /\ global = 0
    /\ writer_done = FALSE
    /\ lines = <<>>
    /\ sink = <<>>
    /\ hpc = [h \in AllHosts |-> "pending"]
    /\ host_sem = [h \in AllHosts |-> 0]
    /\ chan = [h \in AllHosts |-> <<>>]
    /\ open = [h \in AllHosts |-> <<>>]
    /\ result = [h \in AllHosts |-> <<>>]
    /\ pc = [t \in AllTasks |-> "idle"]
    /\ attempts = [t \in AllTasks |-> 0]
    /\ opened = [t \in AllTasks |-> FALSE]
    /\ host_permit = [t \in AllTasks |-> FALSE]
    /\ global_permit = [t \in AllTasks |-> FALSE]
    /\ panicked = {}
    /\ n_connect = [t \in AllTasks |-> 0]
    /\ n_success = [t \in AllTasks |-> 0]
    /\ n_sleep = [t \in AllTasks |-> 0]
    /\ n_rate = [t \in AllTasks |-> 0]
    /\ sem = 0
    /\ rl_ticks = 0
    /\ rl_acquired = 0

Init ==
    /\ cfg \in Configs
    /\ InitRun
    /\ bk = BkIdle
    /\ pp = PpIdle
    /\ rs = RsIdle
    /\ tp = TpIdle
    /\ dh = DhIdle
    /\ cx = CxIdle
    /\ iv = IvIdle


(***************************************************************************)
(* main: Commands::Scan.                                                   *)
(***************************************************************************)
\* main.rs:783-800 (single target) and 877-903 (targets file).  `?` returns
\* the error of parse_ports at once.  With a targets file RateLimiter::new
\* runs at line 883, before rt.block_on: its tokio::spawn is called outside
\* a runtime context and panics.
Setup ==
    /\ main_pc = "start"
    /\ IF PortsResult(cfg).kind = "Err"
       THEN /\ main_pc' = "failed"
            /\ UNCHANGED <<main_host_sem, global, hpc>>
       ELSE IF cfg.multi
       THEN IF RateConfigured
            THEN /\ main_pc' = "panicked"
                 /\ UNCHANGED <<main_host_sem, global, hpc>>
            ELSE /\ main_pc' = "spawning"
                 /\ global' = TotalConnections(cfg)
                 /\ main_host_sem' = HostConc(cfg)
                 /\ hpc' = hpc
       ELSE /\ main_pc' = "scanning"
            /\ hpc' = [hpc EXCEPT ![1] = "spawned"]
            /\ UNCHANGED <<main_host_sem, global>>
    /\ UNCHANGED <<cfg, launched, writer_done, lines, sink, host_sem, chan, open,
                   result, taskVars, histVars, rlVars, pureVars>>

\* main.rs:905-953: one turn of `for t in targets_vec`, admitted by an
\* owned permit of host_sem; after the last target tx is dropped.
Launch(h) ==
    /\ main_pc = "spawning"
    /\ h = launched + 1
    /\ h \in Hosts
    /\ SemAvailable(main_host_sem)
    /\ main_host_sem' = SemTake(main_host_sem)
    /\ launched' = h
    /\ hpc' = [hpc EXCEPT ![h] = "spawned"]
    /\ main_pc' = IF h = NumTargets THEN "awaiting" ELSE "spawning"
    /\ UNCHANGED <<cfg, global, writer_done, lines, sink, host_sem, chan, open,
                   result, taskVars, histVars, rlVars, pureVars>>

\* lib.rs:69-106: the scan up to its first await: the per-host semaphore and
\* the channel are created and one task per port is spawned.  The name
\* resolution of lib.rs:71 only chooses the address the connects go to; the
\* outcome of every connect is left open in ConnectOk and ConnectFailed.
\* For an empty port list mpsc::channel(0) at lib.rs:74 panics.  With a
\* targets file the panic ends the host task of main.rs:912-950: txc and
\* host_sem_p are dropped by the unwinding and no line is sent.  With a
\* single target the scan runs in rt.block_on on the main thread
\* (main.rs:799) and the panic ends main.
HostStart(h) ==
    /\ hpc[h] = "spawned"
    /\ IF Ports = {}
       THEN /\ hpc' = [hpc EXCEPT ![h] = "panicked"]
            /\ IF cfg.multi
               THEN main_host_sem' = SemAdd(main_host_sem) /\ UNCHANGED main_pc
               ELSE main_pc' = "panicked" /\ UNCHANGED main_host_sem
            /\ UNCHANGED <<host_sem, pc>>
       ELSE /\ hpc' = [hpc EXCEPT ![h] = "collecting"]
            /\ host_sem' = [host_sem EXCEPT ![h] = PerHostBudget(cfg)]
            /\ pc' = [t \in AllTasks |->
                        IF t[1] = h /\ t[2] \in Ports THEN "acq_host" ELSE pc[t]]
            /\ UNCHANGED <<main_pc, main_host_sem>>
    /\ UNCHANGED <<cfg, launched, global, writer_done, lines, sink, chan, open, result,
                   attempts, opened, host_permit, global_permit, panicked, histVars,
                   rlVars, pureVars>>

\* lib.rs:109-111: one turn of `while let Some(p) = rx.recv().await`
Recv(h) ==
    /\ hpc[h] = "collecting"
    /\ chan[h] # <<>>
    /\ open' = [open EXCEPT ![h] = Append(open[h], Head(chan[h]))]
    /\ chan' = [chan EXCEPT ![h] = Tail(chan[h])]
    /\ UNCHANGED <<cfg, mainVars, hpc, host_sem, result, taskVars, histVars, rlVars, pureVars>>

\* a receive loop that ends as soon as one port task has ended
SendersDroppedAny(h) == \E p \in Ports : pc[<<h, p>>] = "done"

\* every sender of the host's channel is dropped: the port tasks have ended
\* (tx itself is dropped at lib.rs:106)
SendersDropped(h) == \A p \in Ports : pc[<<h, p>>] = "done"

\* the record of a target: main.rs:827-849 and 927-947
Line(h, ports) == [target |-> h, open |-> ports]

\* writeln!(w, "{}", line) and println!("{}", line) write the text of the
\* line and then the end of the line
TextChunk(line) == [kind |-> "text", line |-> line]
NewlineChunk == [kind |-> "newline"]

\* the text of a line is written and its end is not yet
MidRecord == sink # <<>> /\ sink[Len(sink)].kind = "text"

\* a host task that writes its line itself, the text and then the end of
\* the line, instead of sending it to the writer thread
HostFinishWritesItself(h) ==
    /\ \/ /\ hpc[h] = "collecting"
          /\ chan[h] = <<>>
          /\ SendersDropped(h)
          /\ result' = [result EXCEPT ![h] = SortUnstable(open[h])]
          /\ sink' = Append(sink, TextChunk(Line(h, SortUnstable(open[h]))))
          /\ hpc' = [hpc EXCEPT ![h] = "writing"]
          /\ UNCHANGED <<main_host_sem, main_pc>>
       \/ /\ hpc[h] = "writing"
          /\ sink' = Append(sink, NewlineChunk)
          /\ hpc' = [hpc EXCEPT ![h] = "finished"]
          /\ main_host_sem' = IF cfg.multi THEN SemAdd(main_host_sem) ELSE main_host_sem
          /\ main_pc' = IF cfg.multi THEN main_pc ELSE "returned"
          /\ UNCHANGED result
    /\ UNCHANGED <<cfg, launched, global, writer_done, lines, host_sem, chan, open,
                   taskVars, histVars, rlVars, pureVars>>

\* lib.rs:109-113: recv returns None, the ports are sorted and returned;
\* then main.rs:926-949 (the line is sent to the writer and the admission
\* permit dropped) or main.rs:814-857 (the line is printed).
HostFinish(h) ==
    /\ hpc[h] = "collecting"
    /\ chan[h] = <<>>
    /\ SendersDropped(h)
    /\ LET sorted == SortUnstable(open[h])
       IN  /\ result' = [result EXCEPT ![h] = sorted]
           /\ IF cfg.multi
              THEN /\ lines' = Append(lines, Line(h, sorted))
                   /\ main_host_sem' = SemAdd(main_host_sem)
                   /\ UNCHANGED <<sink, main_pc>>
              ELSE /\ sink' = sink \o <<TextChunk(Line(h, sorted)), NewlineChunk>>
                   /\ main_pc' = "returned"
                   /\ UNCHANGED <<lines, main_host_sem>>
    /\ hpc' = [hpc EXCEPT ![h] = "finished"]
    /\ UNCHANGED <<cfg, launched, global, writer_done, host_sem, chan, open,
                   taskVars, histVars, rlVars, pureVars>>

\* the host task of main.rs:912-950 has ended, by its end or by a panic
HostTaskEnded(h) == hpc[h] \in {"finished", "panicked"}

\* main.rs:890-897: one turn of the writer thread's loop, up to the text
\* of the line
WriterRecv ==
    /\ ~writer_done
    /\ ~MidRecord
    /\ lines # <<>>
    /\ sink' = Append(sink, TextChunk(Head(lines)))
    /\ lines' = Tail(lines)
    /\ UNCHANGED <<cfg, main_pc, launched, main_host_sem, global, writer_done,
                   hostVars, taskVars, histVars, rlVars, pureVars>>

\* main.rs:892-895: the end of the line is written (and flushed)
WriterNewline ==
    /\ ~writer_done
    /\ MidRecord
    /\ sink' = Append(sink, NewlineChunk)
    /\ UNCHANGED <<cfg, main_pc, launched, main_host_sem, global, writer_done, lines,
                   hostVars, taskVars, histVars, rlVars, pureVars>>

\* main.rs:890: blocking_recv returns None once tx and its clones are dropped
WriterExit ==
    /\ ~writer_done
    /\ ~MidRecord
    /\ lines = <<>>
    /\ main_pc \in {"awaiting", "joining"}
    /\ \A h \in Hosts : HostTaskEnded(h)
    /\ writer_done' = TRUE
    /\ UNCHANGED <<cfg, main_pc, launched, main_host_sem, global, lines, sink,
                   hostVars, taskVars, histVars, rlVars, pureVars>>

\* main.rs:954: `for h in handles { let _ = h.await; }`
JoinHandles ==
    /\ main_pc = "awaiting"
    /\ \A h \in Hosts : HostTaskEnded(h)
    /\ main_pc' = "joining"
    /\ UNCHANGED <<cfg, launched, main_host_sem, global, writer_done, lines, sink,
                   hostVars, taskVars, histVars, rlVars, pureVars>>

\* main.rs:957-958: writer_handle.join(), return Ok(())
JoinWriter ==
    /\ main_pc = "joining"
    /\ writer_done
    /\ main_pc' = "returned"
    /\ UNCHANGED <<cfg, launched, main_host_sem, global, writer_done, lines, sink,
                   hostVars, taskVars, histVars, rlVars, pureVars>>


(***************************************************************************)
(* The port task, lib.rs:82-104.                                           *)
(***************************************************************************)
\* where the task goes once it holds the per-host permit (lib.rs:84-88)
AfterGlobal == IF RateConfigured THEN "acq_rate" ELSE "connecting"
AfterHost == IF GlobalConfigured THEN "acq_global" ELSE AfterGlobal

\* a connect is issued when the task enters the retry loop (lib.rs:93)
Issue(t, to) ==
    n_connect' = [n_connect EXCEPT ![t] = IF to = "connecting" THEN @ + 1 ELSE @]

\* a task that ends without a connect when it finds no per-host permit
AcquireHostOrSkip(t) ==
    /\ pc[t] = "acq_host"
    /\ IF SemAvailable(host_sem[t[1]])
       THEN /\ host_sem' = [host_sem EXCEPT ![t[1]] = SemTake(@)]
            /\ host_permit' = [host_permit EXCEPT ![t] = TRUE]
            /\ pc' = [pc EXCEPT ![t] = AfterHost]
            /\ Issue(t, AfterHost)
       ELSE /\ pc' = [pc EXCEPT ![t] = "done"]
            /\ UNCHANGED <<host_sem, host_permit, n_connect>>
    /\ UNCHANGED <<cfg, mainVars, hpc, chan, open, result, attempts, opened,
                   global_permit, panicked, n_success, n_sleep, n_rate, rlVars, pureVars>>

\* lib.rs:83: let _host_permit = host_sem.acquire_owned().await.unwrap();
AcquireHost(t) ==
    /\ pc[t] = "acq_host"
    /\ SemAvailable(host_sem[t[1]])
    /\ host_sem' = [host_sem EXCEPT ![t[1]] = SemTake(@)]
    /\ host_permit' = [host_permit EXCEPT ![t] = TRUE]
    /\ pc' = [pc EXCEPT ![t] = AfterHost]
    /\ Issue(t, AfterHost)
    /\ UNCHANGED <<cfg, mainVars, hpc, chan, open, result, attempts, opened,
                   global_permit, panicked, n_success, n_sleep, n_rate, rlVars, pureVars>>

\* lib.rs:84-87: Some(g) => Some(g.acquire_owned().await.unwrap())
AcquireGlobal(t) ==
    /\ pc[t] = "acq_global"
    /\ SemAvailable(global)
    /\ global' = SemTake(global)
    /\ global_permit' = [global_permit EXCEPT ![t] = TRUE]
    /\ pc' = [pc EXCEPT ![t] = AfterGlobal]
    /\ Issue(t, AfterGlobal)
    /\ UNCHANGED <<cfg, main_pc, launched, main_host_sem, writer_done, lines, sink,
                   hostVars, attempts, opened, host_permit, panicked,
                   n_success, n_sleep, n_rate, rlVars, pureVars>>

\* lib.rs:88: if let Some(q) = qps_rl { q.acquire().await; }
\* with ratelimiter.rs:29-31
AcquireRate(t) ==
    /\ pc[t] = "acq_rate"
    /\ SemAvailable(sem)
    /\ sem' = RateAcquireEffect(sem)
    /\ rl_acquired' = rl_acquired + 1
    /\ n_rate' = [n_rate EXCEPT ![t] = @ + 1]
    /\ pc' = [pc EXCEPT ![t] = "connecting"]
    /\ Issue(t, "connecting")
    /\ UNCHANGED <<cfg, mainVars, hostVars, attempts, opened, host_permit,
                   global_permit, panicked, n_success, n_sleep, rl_ticks, pureVars>>

\* a task end that gives back the per-host permit only
DropPermitsHostOnly(t) ==
    /\ host_sem' = [host_sem EXCEPT ![t[1]] = IF host_permit[t] THEN SemAdd(@) ELSE @]
    /\ host_permit' = [host_permit EXCEPT ![t] = FALSE]
    /\ UNCHANGED <<global, global_permit>>

\* The end of the task's async block, by return or by unwinding: the locals
\* _global_permit and _host_permit are dropped, which gives the permits back.
DropPermits(t) ==
    /\ host_sem' = [host_sem EXCEPT ![t[1]] = IF host_permit[t] THEN SemAdd(@) ELSE @]
    /\ global' = IF global_permit[t] THEN SemAdd(global) ELSE global
    /\ host_permit' = [host_permit EXCEPT ![t] = FALSE]
    /\ global_permit' = [global_permit EXCEPT ![t] = FALSE]

\* a panic that leaves the permits of the task taken
UnwindKeepsPermits(t) == UNCHANGED <<host_sem, global, host_permit, global_permit>>

\* A panic inside the spawned task (lib.rs:82-104) is caught by the runtime
\* at the task boundary: the unwinding drops the locals of the task, its
\* permits and its tx, and only the detached JoinHandle would see the error.
Unwind(t) == DropPermits(t)

\* lib.rs:93-94 and 103: the connect succeeds within the timeout; the loop is
\* left, the port is sent (the channel holds ports.len() slots) and the task ends.
ConnectOk(t) ==
    /\ pc[t] = "connecting"
    /\ opened' = [opened EXCEPT ![t] = TRUE]
    /\ n_success' = [n_success EXCEPT ![t] = @ + 1]
    /\ chan' = [chan EXCEPT ![t[1]] = Append(@, t[2])]
    /\ pc' = [pc EXCEPT ![t] = "done"]
    /\ DropPermits(t)
    /\ UNCHANGED <<cfg, main_pc, launched, main_host_sem, writer_done, lines, sink,
                   hpc, open, result, attempts, panicked, n_connect, n_sleep,
                   n_rate, rlVars, pureVars>>

\* lib.rs:93-102: the connect is refused or times out.  attempts is counted
\* up; with retries left the backoff delay is computed and the sleep begun,
\* otherwise the loop ends, nothing is sent and the task ends.
ConnectFailed(t) ==
    /\ pc[t] = "connecting"
    /\ \E a \in {attempts[t] + 1} : \E exp \in {BackoffExp(cfg.retry_delay, a)} :
           /\ attempts' = [attempts EXCEPT ![t] = a]
           /\ IF a <= cfg.retries
              THEN \E jitter \in JitterRange(exp) : \E d \in SleepMillis(exp, jitter) :
                     IF d.kind = "panic"
                     THEN /\ pc' = [pc EXCEPT ![t] = "done"]
                          /\ panicked' = panicked \cup {t}
                          /\ Unwind(t)
                          /\ UNCHANGED n_sleep
                     ELSE /\ pc' = [pc EXCEPT ![t] = "sleeping"]
                          /\ n_sleep' = [n_sleep EXCEPT ![t] = @ + 1]
                          /\ UNCHANGED <<panicked, host_sem, global, host_permit,
                                         global_permit>>
              ELSE /\ pc' = [pc EXCEPT ![t] = "done"]
                   /\ DropPermits(t)
                   /\ UNCHANGED <<panicked, n_sleep>>
    /\ UNCHANGED <<cfg, main_pc, launched, main_host_sem, writer_done, lines, sink,
                   hpc, chan, open, result, opened, n_connect, n_success, n_rate,
                   rlVars, pureVars>>

\* lib.rs:100 and 92-93: the sleep ends and the loop condition is tested
Wake(t) ==
    /\ pc[t] = "sleeping"
    /\ IF attempts[t] <= cfg.retries
       THEN /\ pc' = [pc EXCEPT ![t] = "connecting"]
            /\ Issue(t, "connecting")
            /\ UNCHANGED <<host_sem, global, host_permit, global_permit>>
       ELSE /\ pc' = [pc EXCEPT ![t] = "done"]
            /\ DropPermits(t)
            /\ UNCHANGED n_connect
    /\ UNCHANGED <<cfg, main_pc, launched, main_host_sem, writer_done, lines, sink,
                   hpc, chan, open, result, attempts, opened, panicked, n_success,
                   n_sleep, n_rate, rlVars, pureVars>>

(***************************************************************************)
(* The refill task of the rate limiter, ratelimiter.rs:18-25.              *)
(***************************************************************************)
\* The limiter exists from main.rs:800 until the runtime is dropped.
LimiterRunning == RateConfigured /\ main_pc = "scanning"

\* t.tick().await; sem_bg.add_permits(1);  The first tick of a tokio
\* interval completes at once, tick k+1 completes k * interval_ms later.
Tick ==
    /\ LimiterRunning
    /\ rl_ticks < MaxTicks
    /\ sem' = SemAdd(sem)
    /\ rl_ticks' = rl_ticks + 1
    /\ UNCHANGED <<cfg, mainVars, hostVars, taskVars, histVars, rl_acquired, pureVars>>

\* milliseconds since the limiter was built, read off the refill task
NowMs == IF rl_ticks = 0 THEN 0 ELSE (rl_ticks - 1) * IntervalMs(cfg.qps)

Next ==
    \/ Setup
    \/ \E h \in AllHosts : Launch(h)
    \/ \E h \in AllHosts : HostStart(h)
    \/ \E h \in AllHosts : Recv(h)
    \/ \E h \in AllHosts : HostFinish(h)
    \/ WriterRecv
    \/ WriterNewline
    \/ WriterExit
    \/ JoinHandles
    \/ JoinWriter
    \/ \E t \in AllTasks : AcquireHost(t)
    \/ \E t \in AllTasks : AcquireGlobal(t)
    \/ \E t \in AllTasks : AcquireRate(t)
    \/ \E t \in AllTasks : ConnectOk(t)
    \/ \E t \in AllTasks : ConnectFailed(t)
    \/ \E t \in AllTasks : Wake(t)
    \/ Tick

Spec == Init /\ [][Next]_vars

\* The scan command under a scheduler that does not stop while a step can
\* be taken: the tokio runtime polls every task that is ready, its timers
\* fire, and the writer thread and main run.
SpecFair == Spec /\ WF_vars(Next)


(***************************************************************************)
(* The backoff computation on its own: the delays of one port task whose   *)
(* attempts all fail, for retry delays over the whole range of u64.        *)
(***************************************************************************)
\* --retry-delay-ms values: small ones, and the ones around which
\* base * 2^6 and exp + jitter leave the range of u64
BackoffBases ==
    {U64(0), U64(1), U64(2), U64(3), U64(50), U64Pow2(57), U64Pred(U64Pow2(58)),
     U64Pow2(58), U64Pow2(62), <<0, 0, 0, 49152>>, U64Max}

\* the scan command does not run while the delays are computed
IdleConfig ==
    [multi |-> FALSE, concurrency |-> 1, host_concurrency |-> 1,
     max_connections |-> None, qps |-> 0, retries |-> 0, retry_delay |-> U64(50),
     ports_empty |-> FALSE, ports_bad |-> FALSE,
     ports_vec |-> ParsePorts(ScanPortSpec(FALSE, FALSE, FALSE))]

InitBackoff ==
    /\ cfg = IdleConfig
    /\ InitRun
    /\ \E base \in BackoffBases, retries \in 1..MaxBackoffAttempt :
         bk = [phase |-> "start", base |-> base, retries |-> retries, attempts |-> 0,
               exp |-> U64Zero, jitter |-> U64Zero, kind |-> "none",
               millis |-> U64Zero, prev_exp |-> U64Zero]
    /\ pp = PpIdle
    /\ rs = RsIdle
    /\ tp = TpIdle
    /\ dh = DhIdle
    /\ cx = CxIdle
    /\ iv = IvIdle

\* lib.rs:95-100 after a failed connect: attempts += 1; if attempts <= retries
\* { base, exp, jitter, sleep(exp + jitter) }
Backoff ==
    /\ bk.phase \in {"start", "slept"}
    /\ LET a   == bk.attempts + 1
           exp == BackoffExp(bk.base, a)
       IN  /\ a <= bk.retries
           /\ \E jitter \in JitterRange(exp) : \E d \in SleepMillis(exp, jitter) :
                bk' = [bk EXCEPT !.phase = IF d.kind = "panic" THEN "panicked" ELSE "slept",
                                 !.attempts = a, !.exp = exp, !.jitter = jitter,
                                 !.kind = d.kind, !.millis = d.millis,
                                 !.prev_exp = bk.exp]
    /\ UNCHANGED <<cfg, mainVars, hostVars, taskVars, histVars, rlVars, pp, rs, tp, dh, cx, iv>>

NextBackoff == Backoff

SpecBackoff == InitBackoff /\ [][NextBackoff]_vars


(***************************************************************************)
(* One host scan whose connect outcomes are fixed beforehand: every port   *)
(* of the target either accepts every connect or refuses every connect.    *)
(* The scan runs for every per-host concurrency, with and without pacing.  *)
(***************************************************************************)
\* the single-target command lines, with the set of accepting ports;
\* pacing is explored without retries
HostConfigs ==
    { c \in [multi : {FALSE},
             concurrency : 1..NumPortsSingle,
             host_concurrency : {1},
             max_connections : {None},
             qps : {0, 1},
             retries : 0..MaxRetries,
             retry_delay : RetryDelays,
             ports_empty : {FALSE},
             ports_bad : {FALSE},
             ports_vec : {ParsePorts(ScanPortSpec(FALSE, FALSE, FALSE))},
             accepting : SUBSET (1..NumPortsSingle)] :
        /\ (c.retries = 0 => c.retry_delay = U64(50))
        /\ (c.qps # 0 => c.retries = 0) }

InitHost ==
    /\ cfg \in HostConfigs
    /\ InitRun
    /\ bk = BkIdle
    /\ pp = PpIdle
    /\ rs = RsIdle
    /\ tp = TpIdle
    /\ dh = DhIdle
    /\ cx = CxIdle
    /\ iv = IvIdle

\* lib.rs:93-94: the connect to an accepting port succeeds
ConnectAccepted(t) == t[2] \in cfg.accepting /\ ConnectOk(t)

\* lib.rs:93-95: the connect to any other port is refused or times out
ConnectRefused(t) == t[2] \notin cfg.accepting /\ ConnectFailed(t)

NextHost ==
    \/ Setup
    \/ \E h \in AllHosts : HostStart(h)
    \/ \E h \in AllHosts : Recv(h)
    \/ \E h \in AllHosts : HostFinish(h)
    \/ \E t \in AllTasks : AcquireHost(t)
    \/ \E t \in AllTasks : AcquireRate(t)
    \/ \E t \in AllTasks : ConnectAccepted(t)
    \/ \E t \in AllTasks : ConnectRefused(t)
    \/ \E t \in AllTasks : Wake(t)
    \/ Tick

SpecHost == InitHost /\ [][NextHost]_vars


(***************************************************************************)
(* The port specs parse_ports is called with: up to MaxTokens tokens       *)
(* joined by commas.  Every token is kept next to its text as what it was  *)
(* written from: a port, a range, a blank or a malformed text.             *)
(***************************************************************************)
SingleToken(p) == [kind |-> "single", s |-> p, e |-> p, text |-> Decimal(p)]
PaddedToken(p) ==
    [kind |-> "single", s |-> p, e |-> p, text |-> <<" ">> \o Decimal(p) \o <<" ">>]
RangeToken(s, e) ==
    [kind |-> "range", s |-> s, e |-> e, text |-> Decimal(s) \o <<"-">> \o Decimal(e)]
BlankToken(text) == [kind |-> "blank", s |-> 0, e |-> 0, text |-> text]
MalformedToken(text) == [kind |-> "malformed", s |-> 0, e |-> 0, text |-> text]

\* ports and ranges inside, at and beyond the limits 1 and 65535, in and
\* out of order, overlapping; blanks; texts that are no port and no range
SpecTokens ==
    {SingleToken(p) : p \in {0, 1, 3, 5, 22, 80, U16Max, U16Max + 1}}
    \cup {PaddedToken(3)}
    \cup {RangeToken(r[1], r[2]) :
            r \in {<<1, 3>>, <<2, 5>>, <<10, 5>>, <<0, 3>>, <<3, 0>>,
                   <<U16Max - 1, U16Max>>, <<U16Max, U16Max + 1>>, <<70000, 1>>}}
    \cup {BlankToken(<<>>), BlankToken(<<" ">>)}
    \cup {MalformedToken(t) :
            t \in {<<"x">>, <<"1", "-", "2", "-", "3">>, <<"-", "5">>,
                   <<"1", " ", "-", " ", "3">>}}

\* the tokens written one after the other with a comma in between
RECURSIVE JoinComma(_)
JoinComma(toks) ==
    IF Len(toks) = 1 THEN toks[1].text
    ELSE toks[1].text \o <<",">> \o JoinComma(Tail(toks))

TokenLists == UNION {[1..n -> SpecTokens] : n \in 1..MaxTokens}

InitParse ==
    /\ cfg = IdleConfig
    /\ InitRun
    /\ bk = BkIdle
    /\ rs = RsIdle
    /\ tp = TpIdle
    /\ dh = DhIdle
    /\ cx = CxIdle
    /\ iv = IvIdle
    /\ \E toks \in TokenLists :
         pp = [phase |-> "start", tokens |-> toks, spec |-> JoinComma(toks),
               parts |-> <<>>, ports |-> <<>>, ret |-> [kind |-> "none"]]

notParseVars == <<cfg, mainVars, hostVars, taskVars, histVars, rlVars, bk, rs, tp, dh, cx, iv>>

\* lib.rs:17-18: let mut ports = Vec::new(); and the iterator over the parts
ParseStart ==
    /\ pp.phase = "start"
    /\ pp' = [pp EXCEPT !.phase = "loop", !.parts = Parts(pp.spec), !.ports = <<>>]
    /\ UNCHANGED notParseVars

\* lib.rs:18-33: one turn of the loop; an error returns at once
ParsePart ==
    /\ pp.phase = "loop"
    /\ pp.parts # <<>>
    /\ LET r == ParsePartResult(Head(pp.parts))
       IN  pp' = IF r.err
                 THEN [pp EXCEPT !.phase = "returned", !.ret = ReturnErr(r.msg)]
                 ELSE [pp EXCEPT !.parts = Tail(pp.parts), !.ports = pp.ports \o r.ports]
    /\ UNCHANGED notParseVars

\* lib.rs:34-36: ports.sort_unstable(); ports.dedup(); Ok(ports)
ParseFinish ==
    /\ pp.phase = "loop"
    /\ pp.parts = <<>>
    /\ pp' = [pp EXCEPT !.phase = "returned",
                        !.ret = ReturnOk(Dedup(SortUnstable(pp.ports)))]
    /\ UNCHANGED notParseVars

NextParse == ParseStart \/ ParsePart \/ ParseFinish

SpecParse == InitParse /\ [][NextParse]_vars


(***************************************************************************)
(* resolve_best_effort, lib.rs:128-141.  A Duration is a number of         *)
(* microseconds; an address is the four octets of an IPv4 address.         *)
(***************************************************************************)
\* Duration::as_millis: the whole milliseconds of a duration
AsMillis(d) == d \div 1000

\* dns_retries.saturating_add(1): dns_retries + 1 for every dns_retries below
\* u32::MAX, and MaxDnsRetries is below it
DnsAttempts(dns_retries) == dns_retries + 1

\* sock.ip().to_string() of an IPv4 address: dotted decimal
IpText(ip) ==
    Decimal(ip[1]) \o <<".">> \o Decimal(ip[2]) \o <<".">> \o Decimal(ip[3])
        \o <<".">> \o Decimal(ip[4])

\* iter.next(): the first address of the answer
FirstAddress(addrs) == addrs[1]

\* what (host, 0u16).to_socket_addrs() can give: an error, an answer without
\* addresses, or one or two addresses
LookupAnswers ==
    { [ok |-> FALSE, addrs |-> <<>>],
      [ok |-> TRUE, addrs |-> <<>>],
      [ok |-> TRUE, addrs |-> << <<10, 0, 0, 7>> >>],
      [ok |-> TRUE, addrs |-> << <<192, 168, 1, 20>>, <<10, 0, 0, 7>> >>] }

\* the host names resolved
ResolveHosts == {<<"h", "1">>, <<"n", ".", "x">>}

\* retry delays: none, half a millisecond, one millisecond, 2.5 milliseconds
ResolveDelays == {0, 500, 1000, 2500}

InitResolve ==
    /\ cfg = IdleConfig
    /\ InitRun
    /\ bk = BkIdle
    /\ pp = PpIdle
    /\ tp = TpIdle
    /\ dh = DhIdle
    /\ cx = CxIdle
    /\ iv = IvIdle
    /\ \E host \in ResolveHosts, retries \in 0..MaxDnsRetries, delay \in ResolveDelays :
         rs = [phase |-> "start", host |-> host, dns_retries |-> retries,
               retry_delay |-> delay, attempts |-> 0, i |-> 0,
               answers |-> <<>>, gaps |-> <<>>, since |-> 0, ret |-> <<>>]

notResolveVars == <<cfg, mainVars, hostVars, taskVars, histVars, rlVars, bk, pp, tp, dh, cx, iv>>

\* lib.rs:129: let attempts = dns_retries.saturating_add(1);
ResolveStart ==
    /\ rs.phase = "start"
    /\ rs' = [rs EXCEPT !.phase = "loop", !.attempts = DnsAttempts(rs.dns_retries)]
    /\ UNCHANGED notResolveVars

\* lib.rs:130-138: one turn of the loop up to its sleep.  rs.answers keeps
\* the answers got so far, rs.gaps the time slept between two attempts and
\* rs.since the time slept since the last attempt.
ResolveAttempt ==
    /\ rs.phase = "loop"
    /\ rs.i < rs.attempts
    /\ \E a \in LookupAnswers :
         LET seen == [rs EXCEPT !.answers = Append(rs.answers, a),
                                !.gaps = IF rs.answers = <<>> THEN rs.gaps
                                         ELSE Append(rs.gaps, rs.since),
                                !.since = 0]
         IN  rs' = IF a.ok /\ a.addrs # <<>>
                   THEN [seen EXCEPT !.phase = "returned",
                                     !.ret = IpText(FirstAddress(a.addrs))]
                   ELSE IF rs.i + 1 < rs.attempts /\ AsMillis(rs.retry_delay) > 0
                        THEN [seen EXCEPT !.phase = "sleeping"]
                        ELSE [seen EXCEPT !.i = rs.i + 1]
    /\ UNCHANGED notResolveVars

\* lib.rs:137: std::thread::sleep(retry_delay) returns; the next turn begins
ResolveWake ==
    /\ rs.phase = "sleeping"
    /\ rs' = [rs EXCEPT !.phase = "loop", !.since = rs.since + rs.retry_delay,
                        !.i = rs.i + 1]
    /\ UNCHANGED notResolveVars

\* lib.rs:140: the loop is over: host.to_string()
ResolveFallback ==
    /\ rs.phase = "loop"
    /\ rs.i >= rs.attempts
    /\ rs' = [rs EXCEPT !.phase = "returned", !.ret = rs.host]
    /\ UNCHANGED notResolveVars

NextResolve == ResolveStart \/ ResolveAttempt \/ ResolveWake \/ ResolveFallback

SpecResolve == InitResolve /\ [][NextResolve]_vars


(***************************************************************************)
(* top_ports, lib.rs:43-53: two calls, top_ports(m) and top_ports(n).      *)
(***************************************************************************)
\* const CURATED: &[u16]
CURATED ==
    <<21, 22, 23, 25, 53, 80, 110, 123, 135, 139, 143, 389, 443, 445, 465, 500, 587, 636, 993,
      995, 1080, 1194, 1352, 1433, 1521, 1723, 2049, 2375, 2376, 3000, 3128, 3268, 3306, 3389,
      4444, 4500, 5000, 5060, 5432, 5601, 5671, 5672, 5900, 5985, 5986, 6379, 7001, 7002, 8000,
      8080, 8081, 8200, 8443, 8500, 8530, 8888, 9000, 9092, 9200, 9300, 9418, 9999, 10000,
      11211, 15672, 27017>>

Min(a, b) == IF a <= b THEN a ELSE b

\* a list cut one entry short: CURATED[..take - 1]
TopPortsShort(n) == SubSeq(CURATED, 1, Min(n, Len(CURATED)) - 1)

\* let take = n.min(CURATED.len()); CURATED[..take].to_vec()
TopPorts(n) == SubSeq(CURATED, 1, Min(n, Len(CURATED)))

\* pub fn default_top_ports() -> Vec<u16> { top_ports(64) }
DefaultTopPorts == TopPorts(64)

InitTop ==
    /\ cfg = IdleConfig
    /\ InitRun
    /\ bk = BkIdle
    /\ pp = PpIdle
    /\ rs = RsIdle
    /\ dh = DhIdle
    /\ cx = CxIdle
    /\ iv = IvIdle
    /\ \E m \in 0..MaxTopN, n \in 0..MaxTopN :
         tp = [phase |-> "start", m |-> m, n |-> n, of_m |-> <<>>, of_n |-> <<>>]

notTopVars == <<cfg, mainVars, hostVars, taskVars, histVars, rlVars, bk, pp, rs, dh, cx, iv>>

\* the call top_ports(m)
TopFirst ==
    /\ tp.phase = "start"
    /\ tp' = [tp EXCEPT !.phase = "first", !.of_m = TopPorts(tp.m)]
    /\ UNCHANGED notTopVars

\* the call top_ports(n)
TopSecond ==
    /\ tp.phase = "first"
    /\ tp' = [tp EXCEPT !.phase = "returned", !.of_n = TopPorts(tp.n)]
    /\ UNCHANGED notTopVars

NextTop == TopFirst \/ TopSecond

SpecTop == InitTop /\ [][NextTop]_vars


(***************************************************************************)
(* expand_cidr, host-discovery/src/lib.rs:12-19, for IPv4 blocks.  An      *)
(* address is its four octets.  The arithmetic is done on the two low      *)
(* octets, which holds every block of prefix length 16 and above.          *)
(***************************************************************************)
\* text.split(c): the pieces between the occurrences of c
RECURSIVE SplitAt(_, _)
SplitAt(text, c) ==
    LET k == FirstIndex(text, c)
    IN  IF k = 0 THEN <<text>>
        ELSE <<SubSeq(text, 1, k - 1)>> \o SplitAt(SubSeq(text, k + 1, Len(text)), c)

\* a decimal number of at most maxlen digits and at most maxval
ParseNumber(text, maxlen, maxval) ==
    IF text = <<>> \/ Len(text) > maxlen \/ \E i \in 1..Len(text) : ~IsDigit(text[i])
    THEN ParseErr("invalid IP address syntax")
    ELSE LET r == ParseDigits(text, 0)
         IN  IF r.ok /\ r.val <= maxval THEN r ELSE ParseErr("invalid IP address syntax")

\* cidr.parse::<IpNet>(): four octets of at most 255 each, '/', and a
\* prefix length of at most 32
ParseIpv4(text) ==
    LET parts == SplitAt(text, ".")
        nums  == [i \in 1..Len(parts) |-> ParseNumber(parts[i], 3, 255)]
    IN  IF Len(parts) = 4 /\ \A i \in 1..4 : nums[i].ok
        THEN [ok |-> TRUE, ip |-> [i \in 1..4 |-> nums[i].val]]
        ELSE [ok |-> FALSE, ip |-> <<0, 0, 0, 0>>]

ParseIpNet(text) ==
    LET k    == FirstIndex(text, "/")
        addr == ParseIpv4(SubSeq(text, 1, k - 1))
        len  == ParseNumber(SubSeq(text, k + 1, Len(text)), 2, 32)
    IN  IF k # 0 /\ addr.ok /\ len.ok
        THEN [ok |-> TRUE, ip |-> addr.ip, len |-> len.val]
        ELSE [ok |-> FALSE, ip |-> <<0, 0, 0, 0>>, len |-> 0]

Low16(ip) == ip[3] * 256 + ip[4]
WithLow16(ip, n) == <<ip[1], ip[2], n \div 256, n % 256>>

\* Ipv4Net::network and Ipv4Net::broadcast, as the low 16 bits
NetworkLow(ip, len) == Low16(ip) - (Low16(ip) % (2 ^ (32 - len)))
BroadcastLow(ip, len) == NetworkLow(ip, len) + 2 ^ (32 - len) - 1

\* a block expanded with its network and broadcast addresses left in
NetHostsAll(ip, len) ==
    [i \in 1..(BroadcastLow(ip, len) - NetworkLow(ip, len) + 1) |->
        WithLow16(ip, NetworkLow(ip, len) + i - 1)]

\* net.hosts(): below a prefix length of 31 the network and the broadcast
\* address are left out
NetHosts(ip, len) ==
    LET first == IF len < 31 THEN NetworkLow(ip, len) + 1 ELSE NetworkLow(ip, len)
        last  == IF len < 31 THEN BroadcastLow(ip, len) - 1 ELSE BroadcastLow(ip, len)
    IN  [i \in 1..(last - first + 1) |-> WithLow16(ip, first + i - 1)]

\* pub fn expand_cidr(cidr: &str) -> Result<Vec<IpAddr>>
ExpandCidr(cidr) ==
    LET net == ParseIpNet(cidr)
    IN  IF net.ok THEN [kind |-> "Ok", ips |-> NetHosts(net.ip, net.len)]
        ELSE [kind |-> "Err", ips |-> <<>>]

\* a target written as a block: the address, '/', the prefix length
CidrText(ip, len) == IpText(ip) \o <<"/">> \o Decimal(len)

\* texts that are no block: a prefix length of 33, an octet of 256, three
\* octets, no prefix length, a prefix length that is no number; and, without
\* a '/', an address, a host name and the empty text
BadCidrs ==
    {CidrText(<<10, 0, 0, 8>>, 33), CidrText(<<10, 0, 0, 256>>, 30),
     <<"1", "0", ".", "0", ".", "0", "/", "2", "4">>,
     IpText(<<10, 0, 0, 8>>) \o <<"/">>, IpText(<<10, 0, 0, 8>>) \o <<"/", "x">>}

NoCidrs == BadCidrs \cup {IpText(<<10, 0, 0, 9>>), <<"h", "1">>, <<>>}

\* the addresses the blocks are written with: host bits unset and set, at
\* the ends of the third and the fourth octet
CidrAddrs ==
    {<<10, 0, 0, 0>>, <<10, 0, 0, 8>>, <<10, 0, 0, 13>>, <<10, 0, 3, 255>>,
     <<10, 0, 4, 1>>, <<10, 0, 128, 130>>, <<10, 0, 255, 255>>, <<192, 168, 1, 77>>}

\* one call of expand_cidr: with a block of CidrAddrs of a prefix length of
\* 32 - MaxHostBits and above, or with a text that is no block
InitCidr ==
    /\ cfg = IdleConfig
    /\ InitRun
    /\ bk = BkIdle
    /\ pp = PpIdle
    /\ rs = RsIdle
    /\ tp = TpIdle
    /\ dh = DhIdle
    /\ iv = IvIdle
    /\ \/ \E ip \in CidrAddrs, len \in (32 - MaxHostBits)..32 :
            cx = [phase |-> "start", valid |-> TRUE, ip |-> ip, len |-> len,
                  text |-> CidrText(ip, len), result |-> None]
       \/ \E t \in NoCidrs :
            cx = [phase |-> "start", valid |-> FALSE, ip |-> <<0, 0, 0, 0>>, len |-> 0,
                  text |-> t, result |-> None]

notCidrVars == <<cfg, mainVars, hostVars, taskVars, histVars, rlVars, bk, pp, rs, tp, dh, iv>>

\* the call returns
CidrCall ==
    /\ cx.phase = "start"
    /\ cx' = [cx EXCEPT !.phase = "returned", !.result = ExpandCidr(cx.text)]
    /\ UNCHANGED notCidrVars

NextCidr == CidrCall

SpecCidr == InitCidr /\ [][NextCidr]_vars

(***************************************************************************)
(* Commands::Discover, main.rs:964-1010, and discover_hosts with           *)
(* is_host_live, host-discovery/src/lib.rs:28-62.  dh holds the arguments  *)
(* and the state of one sweep, begun by the command or by a direct call.   *)
(* Whether a connect to a port of an address is accepted within the        *)
(* timeout is fixed for the sweep in dh.accept.                            *)
(***************************************************************************)
Addr(d) == <<10, 0, 0, d>>

\* the candidate lists of a direct call: none, 10.0.0.9 and the addresses
\* after it, and a list that names one address twice
CandidateLists ==
    {[i \in 1..n |-> Addr(8 + i)] : n \in 0..MaxCandidates} \cup {<<Addr(9), Addr(9)>>}

\* the port lists probed: none, one port, and the default of the command
DefaultProbePorts == <<80, 443, 22>>
ProbePortLists == {<<>>, <<80>>, DefaultProbePorts}

\* the <<address, port>> pairs that accept a connect
AcceptSets ==
    { {},
      {<<Addr(9), 80>>},
      {<<Addr(9), 22>>},
      {<<Addr(9), 443>>, <<Addr(9), 22>>, <<Addr(10), 22>>},
      {<<Addr(10), 80>>, <<Addr(11), 443>>},
      {<<Addr(8), 22>>, <<Addr(9), 80>>, <<Addr(10), 80>>, <<Addr(11), 80>>} }

\* the state of a sweep that has not begun
SweepIdle ==
    [ips |-> <<>>, ports |-> <<>>, qps |-> None, sem |-> 0, ticker |-> FALSE,
     lp |-> "none", i |-> 0, chk |-> <<>>, probes |-> <<>>, chan |-> <<>>,
     live |-> <<>>, net |-> 0, ticks |-> 0]

\* bad port specs: port 0, a range out of order, a port above 65535, a
\* token that is no number
BadPortSpecs == {<<"0">>, <<"1", "0", "-", "5">>, Decimal(U16Max + 1), <<"8", "0", ",", "x">>}

\* The command lines explored.  target: blocks of 2, 2, 6 and 1 addresses,
\* with host bits set and unset, the bad blocks, an address and a host
\* name.  --ports: not given, "22,80", "80", a list without tokens, and the
\* bad specs.
CommandLines ==
    [target : {CidrText(Addr(8), 30), CidrText(Addr(9), 31), CidrText(Addr(13), 29),
               CidrText(Addr(9), 32)}
              \cup BadCidrs \cup {IpText(Addr(9)), <<"h", "1">>},
     ports_arg : {None} \cup {Some(t) : t \in {<<"2", "2", ",", "8", "0">>, <<"8", "0">>, <<",">>}
                                              \cup BadPortSpecs},
     concurrency : {1, 2},
     qps_arg : {0, 1}]

InitDiscover ==
    /\ cfg = IdleConfig
    /\ InitRun
    /\ bk = BkIdle
    /\ pp = PpIdle
    /\ rs = RsIdle
    /\ tp = TpIdle
    /\ cx = CxIdle
    /\ iv = IvIdle
    /\ \/ \E c \in CommandLines, acc \in AcceptSets :
            dh = [phase |-> "command", target |-> c.target, ports_arg |-> c.ports_arg,
                  qps_arg |-> c.qps_arg, concurrency |-> c.concurrency, accept |-> acc,
                  sweep |-> SweepIdle]
       \/ \E ips \in CandidateLists, ports \in ProbePortLists, conc \in {0, 1, 2},
             q \in {None, Some(0), Some(1), Some(2000)}, acc \in AcceptSets :
            dh = [phase |-> "call", target |-> <<>>, ports_arg |-> None, qps_arg |-> 0,
                  concurrency |-> conc, accept |-> acc,
                  sweep |-> [SweepIdle EXCEPT !.ips = ips, !.ports = ports, !.qps = q]]

notDiscoverVars == <<cfg, mainVars, hostVars, taskVars, histVars, rlVars, bk, pp, rs, tp, cx, iv>>

\* main.rs:985: let q = if qps == 0 { None } else { Some(qps) };
QpsOption(qps_arg) == IF qps_arg = 0 THEN None ELSE Some(qps_arg)

\* main.rs:972-987: the ports are parsed, then a target with a '/' is
\* expanded; `?` returns the error of either.  Any other target is resolved.
DiscoverArgs ==
    /\ dh.phase = "command"
    /\ LET ports_vec == IF dh.ports_arg = None THEN ReturnOk(DefaultProbePorts)
                        ELSE ParsePorts(dh.ports_arg[1])
           ips       == ExpandCidr(dh.target)
       IN  dh' = IF ports_vec.kind = "Err" THEN [dh EXCEPT !.phase = "failed"]
                 ELSE IF FirstIndex(dh.target, "/") = 0
                      THEN [dh EXCEPT !.phase = "resolving", !.sweep.ports = ports_vec.ports]
                 ELSE IF ips.kind = "Err" THEN [dh EXCEPT !.phase = "failed"]
                 ELSE [dh EXCEPT !.phase = "call", !.sweep.ports = ports_vec.ports,
                                 !.sweep.ips = ips.ips,
                                 !.sweep.qps = QpsOption(dh.qps_arg)]
    /\ UNCHANGED notDiscoverVars

\* main.rs:979-981 with lib.rs:22-25: the name is looked up; without an
\* answer the target is read as an address, and 0.0.0.0 is an error
DiscoverResolve ==
    /\ dh.phase = "resolving"
    /\ \E answer \in {None, Some(Addr(9))} :
         LET lit == ParseIpv4(dh.target)
             ip  == IF answer # None THEN answer[1]
                    ELSE IF lit.ok THEN lit.ip ELSE <<0, 0, 0, 0>>
         IN  dh' = IF ip = <<0, 0, 0, 0>>
                   THEN [dh EXCEPT !.phase = "failed", !.sweep.net = @ + 1]
                   ELSE [dh EXCEPT !.phase = "call", !.sweep.net = @ + 1,
                                   !.sweep.ips = <<ip>>,
                                   !.sweep.qps = QpsOption(dh.qps_arg)]
    /\ UNCHANGED notDiscoverVars

\* let interval = (1000u32 / q.max(1)) as u64, in milliseconds
PacingMs(q) == 1000 \div Max(q, 1)

\* where the loop over the candidates goes before it spawns a check
LoopEntry(sw) == IF sw.ticker THEN "tick" ELSE "acquire"

\* lib.rs:44-47: mpsc::channel panics for a capacity of 0, and
\* tokio::time::interval panics for a period of 0
DiscoverStart ==
    /\ dh.phase = "call"
    /\ LET sw == dh.sweep
           n  == Len(sw.ips)
       IN  dh' = IF n = 0 \/ (sw.qps # None /\ PacingMs(sw.qps[1]) = 0)
                 THEN [dh EXCEPT !.phase = "panicked"]
                 ELSE [dh EXCEPT !.phase = "loop",
                                 !.sweep.sem = Max(dh.concurrency, 1),
                                 !.sweep.ticker = (sw.qps # None),
                                 !.sweep.lp = LoopEntry([sw EXCEPT !.ticker = (sw.qps # None)]),
                                 !.sweep.i = 1,
                                 !.sweep.chk = [j \in 1..n |-> [st |-> "none", k |-> 0]],
                                 !.sweep.probes = [j \in 1..n |-> <<>>]]
    /\ UNCHANGED notDiscoverVars

\* lib.rs:49: if let Some(t) = ticker.as_mut() { t.tick().await; }
DiscoverTick ==
    /\ dh.phase = "loop"
    /\ dh.sweep.lp = "tick"
    /\ dh' = [dh EXCEPT !.sweep.lp = "acquire", !.sweep.ticks = @ + 1]
    /\ UNCHANGED notDiscoverVars

\* lib.rs:50-56: the permit is acquired and the check spawned; after the
\* last candidate tx is dropped (lib.rs:58)
DiscoverSpawn ==
    /\ dh.phase = "loop"
    /\ dh.sweep.lp = "acquire"
    /\ SemAvailable(dh.sweep.sem)
    /\ LET sw == dh.sweep
       IN  dh' = [dh EXCEPT !.sweep.sem = SemTake(sw.sem),
                            !.sweep.chk[sw.i].st = "spawned",
                            !.sweep.i = sw.i + 1,
                            !.sweep.lp = IF sw.i = Len(sw.ips) THEN "none" ELSE LoopEntry(sw),
                            !.phase = IF sw.i = Len(sw.ips) THEN "collecting" ELSE "loop"]
    /\ UNCHANGED notDiscoverVars

\* a check that keeps its permit when it ends
CheckEndKeepsPermit(sw, j, is_live) ==
    [sw EXCEPT !.chk[j].st = "done",
               !.chan = IF is_live THEN Append(sw.chan, sw.ips[j]) ELSE sw.chan]

\* lib.rs:54-55: a live address is sent, the permit is dropped, the task ends
CheckEnd(sw, j, is_live) ==
    [sw EXCEPT !.chk[j].st = "done",
               !.chan = IF is_live THEN Append(sw.chan, sw.ips[j]) ELSE sw.chan,
               !.sem = SemAdd(sw.sem)]

\* a connect to the k-th port is issued (lib.rs:30-31)
CheckConnect(sw, j, k) ==
    [sw EXCEPT !.chk[j] = [st |-> "connecting", k |-> k],
               !.probes[j] = Append(sw.probes[j], sw.ports[k]),
               !.net = sw.net + 1]

\* the check runs up to its first connect (lib.rs:29-31)
CheckPoll(j) ==
    /\ dh.phase \in {"loop", "collecting"}
    /\ dh.sweep.chk[j].st = "spawned"
    /\ dh' = [dh EXCEPT !.sweep = IF dh.sweep.ports = <<>> THEN CheckEnd(dh.sweep, j, FALSE)
                                  ELSE CheckConnect(dh.sweep, j, 1)]
    /\ UNCHANGED notDiscoverVars

\* a connect that every port accepts
ProbeAcceptedAlways(sw, j) == TRUE

\* lib.rs:31: if let Ok(Ok(_)) = timeout(..).await { .. }
ProbeAccepted(sw, j) == <<sw.ips[j], sw.ports[sw.chk[j].k]>> \in dh.accept

\* a check that probes every port of the list before it returns
ProbeStepAllPorts(sw, j) ==
    IF sw.chk[j].k < Len(sw.ports) THEN CheckConnect(sw, j, sw.chk[j].k + 1)
    ELSE CheckEnd(sw, j, \E k \in 1..Len(sw.ports) : <<sw.ips[j], sw.ports[k]>> \in dh.accept)

\* lib.rs:29-33: the connect is accepted and the check returns true, or it
\* is not and the loop goes on to the next port, or returns false after the
\* last one
ProbeStep(sw, j) ==
    IF ProbeAccepted(sw, j) THEN CheckEnd(sw, j, TRUE)
    ELSE IF sw.chk[j].k < Len(sw.ports) THEN CheckConnect(sw, j, sw.chk[j].k + 1)
    ELSE CheckEnd(sw, j, FALSE)

\* lib.rs:31: the connect ends, accepted, refused or timed out
CheckProbe(j) ==
    /\ dh.phase \in {"loop", "collecting"}
    /\ dh.sweep.chk[j].st = "connecting"
    /\ dh' = [dh EXCEPT !.sweep = ProbeStep(dh.sweep, j)]
    /\ UNCHANGED notDiscoverVars

\* lib.rs:60: one turn of `while let Some(ip) = rx.recv().await`
DiscoverRecv ==
    /\ dh.phase = "collecting"
    /\ dh.sweep.chan # <<>>
    /\ dh' = [dh EXCEPT !.sweep.live = Append(@, Head(dh.sweep.chan)),
                        !.sweep.chan = Tail(@)]
    /\ UNCHANGED notDiscoverVars

\* lib.rs:60-61: every sender is dropped, recv returns None, live is returned
DiscoverReturn ==
    /\ dh.phase = "collecting"
    /\ dh.sweep.chan = <<>>
    /\ \A j \in 1..Len(dh.sweep.ips) : dh.sweep.chk[j].st = "done"
    /\ dh' = [dh EXCEPT !.phase = "returned"]
    /\ UNCHANGED notDiscoverVars

\* the positions of a candidate list; a block of prefix length 29 has 6 hosts
Candidates == 1..Max(MaxCandidates, 6)

NextDiscover ==
    \/ DiscoverArgs
    \/ DiscoverResolve
    \/ DiscoverStart
    \/ DiscoverTick
    \/ DiscoverSpawn
    \/ \E j \in Candidates : j <= Len(dh.sweep.ips) /\ CheckPoll(j)
    \/ \E j \in Candidates : j <= Len(dh.sweep.ips) /\ CheckProbe(j)
    \/ DiscoverRecv
    \/ DiscoverReturn

SpecDiscover == InitDiscover /\ [][NextDiscover]_vars


(***************************************************************************)
(* Properties of the scan (specification Spec).                            *)
(***************************************************************************)
Connecting == {t \in Tasks : pc[t] = "connecting"}
ConnectingOn(h) == {t \in Connecting : t[1] = h}
HostScanStarted(h) == hpc[h] \in {"collecting", "finished"}

\* C1: in a multi-target run the connection attempts in flight never exceed
\* the global budget, and those of one host never exceed its per-host budget.
C1_BudgetsBoundInFlight ==
    cfg.multi =>
        /\ Cardinality(Connecting) <= TotalConnections(cfg)
        /\ \A h \in Hosts : Cardinality(ConnectingOn(h)) <= PerHostBudget(cfg)

\* both budgets are exhausted by attempts in flight while other port tasks
\* wait for a per-host permit and for a global permit
C1_Witness ==
    /\ cfg.multi
    /\ Cardinality(Connecting) = TotalConnections(cfg)
    /\ \E h \in Hosts : Cardinality(ConnectingOn(h)) = PerHostBudget(cfg)
    /\ \E t \in Tasks : pc[t] = "acq_global"
    /\ \E t \in Tasks : pc[t] = "acq_host"

\* C2: every completed acquire() lowers the number of available permits of
\* the rate limiter by one.
C2_AcquireConsumesPermit ==
    [][rl_acquired' = rl_acquired + 1 => sem' = sem - 1]_vars

\* the whole seconds of the window [0, now], at least one
WindowSecs == Max(1, (NowMs + 999) \div 1000)

\* C3: in the window of T >= 1 seconds that starts when the limiter is built,
\* at most R*T + 1 acquire() calls complete.
C3_WindowBound ==
    RateConfigured => rl_acquired <= cfg.qps * WindowSecs + 1

\* C4: the limiter never has more than one permit available at once.
C4_NoBankedPermits == sem <= 1

\* C5: no connect is issued without a rate permit acquired for that attempt:
\* a port task has acquired as many rate permits as it has issued connects.
C5_RatePermitPerAttempt ==
    RateConfigured => \A t \in Tasks : n_connect[t] <= n_rate[t]

\* C6 as claimed: a port task sleeping in backoff holds no budget permit.
C6_NoPermitInBackoff ==
    \A t \in Tasks : pc[t] = "sleeping" => ~host_permit[t] /\ ~global_permit[t]

HoldingHost(h) == {t \in Tasks : t[1] = h /\ host_permit[t]}
HoldingGlobal == {t \in Tasks : global_permit[t]}

\* C6 as amended: the budget permits are acquired once, before the first
\* attempt of a port task, held through every attempt and every backoff
\* sleep, and given back to their semaphores when the task ends.
C6_PermitsHeldUntilTaskEnds ==
    /\ \A t \in Tasks :
         /\ pc[t] \in {"acq_rate", "connecting", "sleeping"} =>
                host_permit[t] /\ (GlobalConfigured <=> global_permit[t])
         /\ pc[t] = "acq_global" => host_permit[t] /\ ~global_permit[t]
         /\ pc[t] \in {"idle", "acq_host", "done"} =>
                ~host_permit[t] /\ ~global_permit[t]
    /\ \A h \in Hosts : HostScanStarted(h) =>
         host_sem[h] + Cardinality(HoldingHost(h)) = PerHostBudget(cfg)
    /\ (cfg.multi /\ main_pc \notin {"start", "failed", "panicked"}) =>
         global + Cardinality(HoldingGlobal) = TotalConnections(cfg)

\* a task sleeps in backoff with both permits while another task waits for
\* the global permit it holds, and a third has ended and holds none
C6_Witness ==
    /\ \E t \in Tasks : pc[t] = "sleeping" /\ host_permit[t] /\ global_permit[t]
    /\ global = 0
    /\ \E t \in Tasks : pc[t] = "acq_global"
    /\ \E t \in Tasks : pc[t] = "done" /\ n_connect[t] > 0

AllPortTasksEnded == \A h \in Hosts : HostScanStarted(h) /\ SendersDropped(h)

\* C7: once all port tasks of a run have ended, however they ended, the
\* global budget and every per-host budget have all their permits back.
C7_AllPermitsBack ==
    AllPortTasksEnded =>
        /\ \A h \in Hosts : host_sem[h] = PerHostBudget(cfg)
        /\ cfg.multi => global = TotalConnections(cfg)

\* all port tasks of a multi-target run have ended: one by a panic, one with
\* an open port, one after using up its retries
C7_Witness ==
    /\ cfg.multi
    /\ AllPortTasksEnded
    /\ panicked # {}
    /\ \E t \in Tasks : opened[t]
    /\ \E t \in Tasks : /\ ~opened[t] /\ t \notin panicked
                        /\ cfg.retries >= 1 /\ n_connect[t] = cfg.retries + 1

\* C8: a port makes at most retries+1 attempts; a sleep follows each failure
\* but the last; a success ends the sequence; a port is terminal not-open
\* only after retries+1 failures, with retries sleeps.
C8_RetryStateMachine ==
    \A t \in Tasks :
        /\ n_connect[t] <= cfg.retries + 1
        /\ n_success[t] <= 1
        /\ pc[t] = "connecting" => n_sleep[t] = n_connect[t] - 1
        /\ pc[t] = "sleeping" => n_sleep[t] = n_connect[t] /\ n_connect[t] <= cfg.retries
        /\ (pc[t] = "done" /\ opened[t]) =>
                n_success[t] = 1 /\ n_sleep[t] = n_connect[t] - 1
        /\ (pc[t] = "done" /\ ~opened[t]) =>
                n_connect[t] = cfg.retries + 1 /\ n_sleep[t] = cfg.retries

\* the retry state machine of C8 for the port tasks that did not panic
RetryStateMachineUnlessPanicked ==
    \A t \in Tasks :
        /\ n_connect[t] <= cfg.retries + 1
        /\ n_success[t] <= 1
        /\ pc[t] = "connecting" => n_sleep[t] = n_connect[t] - 1
        /\ pc[t] = "sleeping" => n_sleep[t] = n_connect[t] /\ n_connect[t] <= cfg.retries
        /\ (pc[t] = "done" /\ opened[t]) =>
                n_success[t] = 1 /\ n_sleep[t] = n_connect[t] - 1
        /\ (pc[t] = "done" /\ ~opened[t] /\ t \notin panicked) =>
                n_connect[t] = cfg.retries + 1 /\ n_sleep[t] = cfg.retries
        /\ t \in panicked =>
                pc[t] = "done" /\ ~opened[t] /\ n_connect[t] <= cfg.retries

SeqToSet(s) == {s[i] : i \in 1..Len(s)}
StrictlyAscending(s) == \A i \in 1..(Len(s) - 1) : s[i] < s[i + 1]
SucceededPorts(h) == {p \in Ports : n_success[<<h, p>>] >= 1}

\* C10: a finished host scan has returned exactly the ports with a
\* successful attempt, each once, in strictly ascending order.
C10_ScanReturnsOpenPortsSorted ==
    \A h \in Hosts : hpc[h] = "finished" =>
        /\ SeqToSet(result[h]) = SucceededPorts(h)
        /\ Len(result[h]) = Cardinality(SucceededPorts(h))
        /\ StrictlyAscending(result[h])

\* a scan has returned two open ports that arrived in descending order,
\* and has left out a port whose attempts all failed
C10_Witness ==
    \E h \in Hosts :
        /\ hpc[h] = "finished"
        /\ Len(open[h]) >= 2
        /\ open[h][1] > open[h][2]
        /\ \E p \in Ports : n_connect[<<h, p>>] > 0 /\ n_success[<<h, p>>] = 0

\* the hosts whose scan has been launched and has not yet finished
HostsInFlight == {h \in Hosts : hpc[h] \notin {"pending", "finished", "panicked"}}

\* C18: in a multi-target run the hosts whose scan is launched and not yet
\* finished are never more than hostConcurrency, 0 counting as 1.
C18_HostAdmissionBound ==
    cfg.multi => Cardinality(HostsInFlight) <= Max(cfg.host_concurrency, 1)

\* --host-concurrency 0: the scan of the first target is in flight and main
\* waits for its admission permit before it launches the second
C18_Witness ==
    /\ cfg.multi
    /\ cfg.host_concurrency = 0
    /\ main_pc = "spawning"
    /\ launched = 1
    /\ HostsInFlight = {1}
    /\ main_host_sem = 0

\* the text chunks of the sink: the records that were written
SinkRecords == SelectSeq(sink, LAMBDA c : c.kind = "text")

\* C19: in a multi-target run the sink is written one whole record at a
\* time: the text of a record is followed by its own line end before the
\* text of any other record, and every record written is a line that a
\* host task sent, taken off the channel by the writer.
C19_RecordsNeverInterleave ==
    cfg.multi =>
        /\ \A i \in 1..Len(sink) :
             /\ sink[i].kind = "text" => i = Len(sink) \/ sink[i + 1].kind = "newline"
             /\ sink[i].kind = "newline" => i > 1 /\ sink[i - 1].kind = "text"
        /\ \A i \in 1..Len(SinkRecords) :
             LET r == SinkRecords[i].line
             IN  hpc[r.target] = "finished" /\ r.open = result[r.target]
        /\ Len(SinkRecords) + Len(lines) =
             Cardinality({h \in Hosts : hpc[h] = "finished"})

\* two hosts completed side by side: the writer has written the text of one
\* record and not yet its line end while the record of the other host waits
\* in the channel
C19_Witness ==
    /\ cfg.multi
    /\ MidRecord
    /\ Len(lines) = 1
    /\ lines[1].target # sink[Len(sink)].line.target
    /\ cfg.host_concurrency = NumTargets

\* the records of target h written to the sink
RecordsOf(h) == {i \in 1..Len(SinkRecords) : SinkRecords[i].line.target = h}

\* C20: when a multi-target run returns, every target has been scanned once
\* and the sink holds exactly one whole record per target.
C20_OneRecordPerTarget ==
    (cfg.multi /\ main_pc = "returned") =>
        /\ \A h \in Hosts : hpc[h] = "finished" /\ Cardinality(RecordsOf(h)) = 1
        /\ Len(SinkRecords) = Cardinality(Hosts)
        /\ ~MidRecord
        /\ lines = <<>>

\* C20 for the runs with a port to scan
OneRecordPerTargetWithPorts ==
    (cfg.multi /\ main_pc = "returned" /\ ~cfg.ports_empty) =>
        /\ \A h \in Hosts : hpc[h] = "finished" /\ Cardinality(RecordsOf(h)) = 1
        /\ Len(SinkRecords) = Cardinality(Hosts)
        /\ ~MidRecord
        /\ lines = <<>>

(***************************************************************************)
(* Properties of one host scan (specification SpecHost).                   *)
(***************************************************************************)
\* the members of a set of ports as a strictly ascending list
AscendingSeq(S) ==
    CHOOSE s \in [1..Cardinality(S) -> S] : StrictlyAscending(s) /\ SeqToSet(s) = S

\* C11: for fixed connect outcomes the list a host scan returns is fixed
\* too: it is the ascending list of the accepting ports, whatever the
\* interleaving of the port tasks and whatever the per-host concurrency.
C11_ResultFixedByOutcomes ==
    hpc[1] = "finished" => result[1] = AscendingSeq(cfg.accepting)

\* ports 1, 2, 3 with only port 2 accepting and a per-host budget of three:
\* [2] is returned, ports 1 and 3 having used every attempt they had
C11_Witness ==
    /\ hpc[1] = "finished"
    /\ cfg.accepting = {2}
    /\ cfg.concurrency = NumPortsSingle
    /\ result[1] = <<2>>
    /\ \A p \in Ports : n_connect[<<1, p>>] = cfg.retries + 1 \/ p = 2

(***************************************************************************)
(* Properties of parse_ports (specification SpecParse).  What a token      *)
(* denotes is read off the numbers it was written from, not off its text.  *)
(***************************************************************************)
ParseReturned == pp.phase = "returned"
TokenIndices == 1..Len(pp.tokens)

\* a port 1..65535, or a range with 1 <= start <= end <= 65535
TokenValid(t) ==
    t.kind \in {"single", "range"} /\ 1 <= t.s /\ t.s <= t.e /\ t.e <= U16Max

\* the ports a token denotes: p denotes {p}, s-e every port from s to e
Denoted(t) == IF t.kind \in {"single", "range"} THEN t.s..t.e ELSE {}

TokenTooLarge(t) == t.kind \in {"single", "range"} /\ (t.s > U16Max \/ t.e > U16Max)

\* port 0, a range with a zero endpoint, a range with start > end, or a
\* value above 65535
TokenRejectable(t) ==
    /\ t.kind \in {"single", "range"}
    /\ (t.s = 0 \/ t.e = 0 \/ t.s > t.e \/ TokenTooLarge(t))

\* C12: every list parse_ports returns is strictly ascending, hence without
\* duplicates, whatever the order or the overlap of the tokens.
C12_ParsedPortsStrictlyAscending ==
    (ParseReturned /\ pp.ret.kind = "Ok") => StrictlyAscending(pp.ret.ports)

\* "1-3,5,3": the ports were collected as 1,2,3,5,3, out of order and with
\* a duplicate, and are returned as 1,2,3,5
C12_Witness ==
    /\ ParseReturned
    /\ pp.spec = <<"1", "-", "3", ",", "5", ",", "3">>
    /\ pp.ports = <<1, 2, 3, 5, 3>>
    /\ pp.ret = ReturnOk(<<1, 2, 3, 5>>)

\* C13: for a spec whose tokens are all valid, parse_ports returns exactly
\* the union of the ports its tokens denote.
C13_ReturnsDenotedPorts ==
    (ParseReturned /\ \A i \in TokenIndices : TokenValid(pp.tokens[i])) =>
        /\ pp.ret.kind = "Ok"
        /\ SeqToSet(pp.ret.ports) = UNION {Denoted(pp.tokens[i]) : i \in TokenIndices}

\* "2-5,65534-65535,22": two ranges, the upper one ending at the last port,
\* and a single port between them
C13_Witness ==
    /\ ParseReturned
    /\ pp.tokens = <<RangeToken(2, 5), RangeToken(U16Max - 1, U16Max), SingleToken(22)>>
    /\ pp.ret = ReturnOk(<<2, 3, 4, 5, 22, U16Max - 1, U16Max>>)

\* C14: a spec with a token that is port 0, a range with a zero endpoint, a
\* range with start > end or a value above 65535 makes parse_ports return
\* an error, which carries no ports, wherever the token stands.
C14_BadTokenIsAnError ==
    (ParseReturned /\ \E i \in TokenIndices : TokenRejectable(pp.tokens[i])) =>
        /\ pp.ret.kind = "Err"
        /\ DOMAIN pp.ret = {"kind", "msg"}

\* an error is returned for a bad last token after ports of the valid
\* tokens before it had been collected
C14_Witness ==
    /\ ParseReturned
    /\ pp.ret.kind = "Err"
    /\ Len(pp.tokens) = MaxTokens
    /\ \A i \in 1..(MaxTokens - 1) : TokenValid(pp.tokens[i])
    /\ pp.tokens[MaxTokens] = RangeToken(0, 3)
    /\ pp.ports # <<>>

\* text occurs in msg
Contains(msg, text) ==
    \E i \in 1..Len(msg) :
        i + Len(text) - 1 <= Len(msg) /\ SubSeq(msg, i, i + Len(text) - 1) = text

\* the token the error is returned for: the first that is neither valid
\* nor blank
FailedToken ==
    pp.tokens[CHOOSE i \in TokenIndices :
                /\ ~TokenValid(pp.tokens[i]) /\ pp.tokens[i].kind # "blank"
                /\ \A j \in 1..(i - 1) :
                     TokenValid(pp.tokens[j]) \/ pp.tokens[j].kind = "blank"]

\* C15: the error returned for a token that violates the bounds 1..65535 or
\* has start > end names that token.
C15_ErrorNamesToken ==
    (ParseReturned /\ pp.ret.kind = "Err" /\ TokenRejectable(FailedToken)) =>
        Contains(pp.ret.msg, FailedToken.text)

\* the errors parse_ports words itself name the token: port 0, a zero
\* endpoint and start > end, when no value of the token is above 65535
ErrorNamesTokenUnlessTooLarge ==
    (/\ ParseReturned /\ pp.ret.kind = "Err"
     /\ TokenRejectable(FailedToken) /\ ~TokenTooLarge(FailedToken)) =>
        /\ Head(pp.parts) = FailedToken.text
        /\ Contains(pp.ret.msg, FailedToken.text)

(***************************************************************************)
(* Properties of resolve_best_effort (specification SpecResolve).          *)
(***************************************************************************)
ResolveReturned == rs.phase = "returned"
Yields(a) == a.ok /\ a.addrs # <<>>
AllAttemptsFailed == \A k \in 1..Len(rs.answers) : ~Yields(rs.answers[k])

\* n times the delay d
Repeated(d, n) == [k \in 1..n |-> d]

AllFailedFallsBackWholeMillis ==
    (ResolveReturned /\ AllAttemptsFailed /\ rs.retry_delay % 1000 = 0) =>
        /\ Len(rs.answers) = rs.dns_retries + 1
        /\ rs.gaps = Repeated(rs.retry_delay, rs.dns_retries)
        /\ rs.since = 0
        /\ rs.ret = rs.host

FirstAddressAtOnceWholeMillis ==
    /\ (\E k \in 1..Len(rs.answers) : Yields(rs.answers[k])) => ResolveReturned
    /\ (ResolveReturned /\ ~AllAttemptsFailed /\ rs.retry_delay % 1000 = 0) =>
         LET i == Len(rs.answers)
         IN  /\ \A k \in 1..(i - 1) : ~Yields(rs.answers[k])
             /\ i <= rs.dns_retries + 1
             /\ rs.ret = IpText(rs.answers[i].addrs[1])
             /\ rs.gaps = Repeated(rs.retry_delay, i - 1)
             /\ rs.since = 0

(***************************************************************************)
(* Properties of the backoff delay (specification SpecBackoff).            *)
(***************************************************************************)
BackoffComputed == bk.phase \in {"slept", "panicked"}

U64Lt(a, b) == U64Leq(a, b) /\ a # b

\* base doubled n times, each doubling saturating at u64::MAX
RECURSIVE DoubleSat(_, _)
DoubleSat(a, n) ==
    IF n = 0 THEN a
    ELSE LET r == U64AddCarry(DoubleSat(a, n - 1), DoubleSat(a, n - 1))
         IN  IF r.carry > 0 THEN U64Max ELSE r.limbs

\* 4 * jitter <= exp, that is jitter <= exp / 4
JitterWithinQuarter(jitter, exp) ==
    LET q == U64MulSmall(jitter, 4)
    IN  q.carry = 0 /\ U64Leq(q.limbs, exp)

\* C9 as claimed: the delay is base * 2^min(k,6), non-decreasing in k, and
\* the total slept lies in [delay, delay + delay/4), delay/4 excluded.
C9_HalfOpenInterval ==
    BackoffComputed =>
        /\ U64MulSmall(bk.base, 2 ^ CapShift(bk.attempts)).carry = 0
        /\ bk.exp = U64MulSmall(bk.base, 2 ^ CapShift(bk.attempts)).limbs
        /\ U64Leq(bk.prev_exp, bk.exp)
        /\ bk.kind = "ok"
        /\ U64Leq(bk.exp, bk.millis)
        /\ U64Lt(U64MulSmall(bk.jitter, 4).limbs, bk.exp)

\* C9 as amended: the delay is base * 2^min(k,6) saturated at 2^64-1,
\* non-decreasing in k; the jitter lies in the closed interval
\* [0, delay/4]; the total is delay + jitter, in the closed interval
\* [delay, delay + delay/4], exactly when that sum fits in 64 bits, and the
\* addition overflows (a panic or a wrapped sum) when it does not.
C9_ClosedInterval ==
    BackoffComputed =>
        /\ bk.exp = DoubleSat(bk.base, CapShift(bk.attempts))
        /\ U64Leq(bk.prev_exp, bk.exp)
        /\ JitterWithinQuarter(bk.jitter, bk.exp)
        /\ LET sum == U64AddCarry(bk.exp, bk.jitter)
               top == U64AddCarry(bk.exp, U64Div4(bk.exp))
           IN  IF sum.carry = 0
               THEN /\ bk.kind = "ok"
                    /\ bk.millis = sum.limbs
                    /\ U64Leq(bk.exp, bk.millis)
                    /\ top.carry = 0 => U64Leq(bk.millis, top.limbs)
               ELSE bk.kind \in {"panic", "wrapped"}

\* the seventh backoff of a 50 ms delay: the growth is capped at 2^6 and the
\* jitter drawn is delay/4 itself, the end the claimed interval leaves out
C9_Witness ==
    /\ bk.phase = "slept"
    /\ bk.base = U64(50)
    /\ bk.attempts = 7
    /\ bk.exp = U64(3200)
    /\ bk.jitter = U64(800)
    /\ bk.millis = U64(4000)

(***************************************************************************)
(* Properties of top_ports (specification SpecTop).                        *)
(***************************************************************************)
TopReturned == tp.phase = "returned"

\* s is the list of the first Len(s) entries of t
IsPrefix(s, t) == Len(s) <= Len(t) /\ \A i \in 1..Len(s) : s[i] = t[i]

\* C30: top_ports(n) is the list of the first min(n, L) entries of the
\* curated list of length L, in curated order; hence for m <= n top_ports(m)
\* is a prefix of top_ports(n), and top_ports(n) is the whole list for n >= L.
C30_TopPortsIsCuratedPrefix ==
    TopReturned =>
        /\ Len(tp.of_n) = (IF tp.n <= Len(CURATED) THEN tp.n ELSE Len(CURATED))
        /\ \A i \in 1..Len(tp.of_n) : tp.of_n[i] = CURATED[i]
        /\ (tp.m <= tp.n => IsPrefix(tp.of_m, tp.of_n))
        /\ (tp.n >= Len(CURATED) => tp.of_n = CURATED)

\* top_ports(3) and top_ports(67) have returned: a proper prefix of the
\* curated list and, for an argument beyond its length, the whole list
C30_Witness ==
    /\ TopReturned
    /\ tp.m = 3 /\ tp.of_m = <<21, 22, 23>>
    /\ tp.n = Len(CURATED) + 1 /\ tp.of_n = CURATED /\ Len(tp.of_n) = 66

(***************************************************************************)
(* Properties of the discovery sweep (specification SpecDiscover).         *)
(***************************************************************************)
Sweep == dh.sweep
SweepReturned == dh.phase = "returned"
SweepRunning == dh.phase \in {"loop", "collecting", "returned"}
CandidateIndices == 1..Len(Sweep.ips)

\* some configured port of the address accepts a connect
HasAcceptingPort(ip) == \E k \in 1..Len(Sweep.ports) : <<ip, Sweep.ports[k]>> \in dh.accept

\* how often ip is in the list s
Occurrences(s, ip) == Cardinality({i \in 1..Len(s) : s[i] = ip})

\* C21: the result of discover_hosts holds a candidate address if and only
\* if one of the configured ports accepts a connect on it; an address
\* without an accepting port is absent, every reported address is a
\* candidate, and it is reported once for every time it is a candidate
\* (once, in a list of distinct candidates).
C21_LiveIffSomePortAccepts ==
    SweepReturned =>
        /\ \A i \in 1..Len(Sweep.live) : Occurrences(Sweep.ips, Sweep.live[i]) >= 1
        /\ \A j \in CandidateIndices :
             Occurrences(Sweep.live, Sweep.ips[j]) =
                IF HasAcceptingPort(Sweep.ips[j]) THEN Occurrences(Sweep.ips, Sweep.ips[j])
                ELSE 0

\* of three candidates 10.0.0.10 accepts on port 80 and 10.0.0.11 on port
\* 443 only; both are reported, the later candidate first, and 10.0.0.9,
\* where no port accepts, is not
C21_Witness ==
    /\ SweepReturned
    /\ Sweep.ips = <<Addr(9), Addr(10), Addr(11)>>
    /\ Sweep.ports = DefaultProbePorts
    /\ dh.accept = {<<Addr(10), 80>>, <<Addr(11), 443>>}
    /\ Sweep.live = <<Addr(11), Addr(10)>>

\* C22: a liveness check connects to the configured ports one at a time in
\* list order, once each, and stops at the first port that accepts: the
\* ports it has connected to are a prefix of the list, none but the last of
\* them accepts, and a check that ended has reached an accepting port or
\* the end of the list.
C22_ProbesInOrderUntilFirstAccept ==
    SweepRunning =>
        \A j \in CandidateIndices :
            LET log == Sweep.probes[j]
            IN  /\ IsPrefix(log, Sweep.ports)
                /\ \A i \in 1..(Len(log) - 1) : <<Sweep.ips[j], log[i]>> \notin dh.accept
                /\ (Sweep.chk[j].st = "connecting" => Sweep.chk[j].k = Len(log))
                /\ (Sweep.chk[j].st = "done" =>
                        \/ Len(log) = Len(Sweep.ports)
                        \/ <<Sweep.ips[j], log[Len(log)]>> \in dh.accept)

\* the check of 10.0.0.9 ended after ports 80 and 443: 443 accepted, and
\* port 22, which accepts too, was not probed
C22_Witness ==
    /\ SweepRunning
    /\ Sweep.ports = DefaultProbePorts
    /\ <<Addr(9), 22>> \in dh.accept
    /\ \E j \in CandidateIndices :
         /\ Sweep.ips[j] = Addr(9)
         /\ Sweep.chk[j].st = "done"
         /\ Sweep.probes[j] = <<80, 443>>

ChecksInFlight == {j \in CandidateIndices : Sweep.chk[j].st \in {"spawned", "connecting"}}

\* C23: the liveness checks in flight are never more than the concurrency
\* (1 for a concurrency of 0), and every check gives its permit back when
\* it ends: the permits available and the checks in flight add up to the
\* concurrency.
C23_ChecksBoundedByConcurrency ==
    SweepRunning =>
        /\ Cardinality(ChecksInFlight) <= Max(dh.concurrency, 1)
        /\ Sweep.sem + Cardinality(ChecksInFlight) = Max(dh.concurrency, 1)

\* with a concurrency of 0 one check is in flight, the loop waits for its
\* permit with candidates left, and an earlier check, not live, has ended
C23_Witness ==
    /\ dh.phase = "loop"
    /\ dh.concurrency = 0
    /\ Sweep.lp = "acquire"
    /\ Sweep.sem = 0
    /\ Cardinality(ChecksInFlight) = 1
    /\ \E j \in CandidateIndices : Sweep.chk[j].st = "done" /\ ~HasAcceptingPort(Sweep.ips[j])

FromCommand == dh.target # <<>>
BadPortSpecGiven == dh.ports_arg # None /\ dh.ports_arg[1] \in BadPortSpecs
BadCidrGiven == dh.target \in BadCidrs

\* C25: the discover command given a bad port spec or a bad CIDR returns an
\* error before any network operation: no name is resolved, no connect is
\* issued, no sweep is begun and no result is produced.
C25_BadArgumentsFailBeforeNetwork ==
    (FromCommand /\ (BadPortSpecGiven \/ BadCidrGiven)) =>
        /\ dh.phase \in {"command", "failed"}
        /\ dh.sweep = SweepIdle

\* the command has failed on the block 10.0.0.8/33 with the default ports
C25_Witness ==
    /\ dh.phase = "failed"
    /\ dh.target = CidrText(Addr(8), 33)
    /\ dh.ports_arg = None
    /\ dh.sweep.net = 0

RateZeroCommandNeverWaits ==
    (FromCommand /\ dh.qps_arg = 0) => (dh.sweep.lp # "tick" /\ dh.sweep.ticks = 0)

(***************************************************************************)
(* Properties of the configuration of the scan (specification Spec).       *)
(***************************************************************************)
NoScanStarted ==
    /\ \A h \in AllHosts : hpc[h] = "pending"
    /\ \A t \in AllTasks : n_connect[t] = 0
    /\ launched = 0
    /\ sink = <<>>

\* C24: a concurrency of zero is reported as a configuration error before
\* any network I/O, and no scan is started (here: --host-concurrency 0).
C24_ZeroConcurrencyIsConfigError ==
    cfg.host_concurrency = 0 => (main_pc \in {"start", "failed"} /\ NoScanStarted)

\* the scan command given a bad port spec returns the error of parse_ports
\* before any host scan is started
ScanBadPortSpecFailsBeforeNetwork ==
    cfg.ports_bad => (main_pc \in {"start", "failed"} /\ NoScanStarted)

\* the permits of the global semaphore: those available and those held
GlobalBudget == global + Cardinality(HoldingGlobal)
GlobalBuilt == cfg.multi /\ main_pc \in {"spawning", "awaiting", "joining", "returned"}

\* C27: the global budget of a multi-target run is the given maxConnections,
\* and concurrency * hostConcurrency when none is given.
C27_GlobalBudgetDefault ==
    GlobalBuilt =>
        GlobalBudget = IF cfg.max_connections = None
                       THEN cfg.concurrency * cfg.host_concurrency
                       ELSE cfg.max_connections[1]

\* the same for a host concurrency of at least 1
GlobalBudgetDefaultPositive ==
    (GlobalBuilt /\ cfg.host_concurrency >= 1) =>
        GlobalBudget = IF cfg.max_connections = None
                       THEN cfg.concurrency * cfg.host_concurrency
                       ELSE cfg.max_connections[1]

\* the scan command with --qps 0 builds no limiter: no port task waits for a
\* rate permit and the refill task never runs
ScanRateZeroNeverWaits ==
    cfg.qps = 0 =>
        /\ \A t \in AllTasks : pc[t] # "acq_rate" /\ n_rate[t] = 0
        /\ rl_ticks = 0 /\ rl_acquired = 0

(***************************************************************************)
(* Properties of the scan under fair scheduling (specification SpecFair).  *)
(***************************************************************************)
RunReturnedWithAllRecords ==
    /\ main_pc = "returned"
    /\ ~MidRecord
    /\ \A h \in Hosts : hpc[h] = "finished" /\ Cardinality(RecordsOf(h)) = 1

\* C28: a port task that panics does not crash the orchestrator: main does
\* not panic, and the run goes on to return with the scan of every host
\* returned, that of the panicked task's host too, and every record written.
C28_PortTaskPanicIsContained ==
    /\ [](panicked # {} => main_pc # "panicked")
    /\ (panicked # {}) ~> RunReturnedWithAllRecords

\* a multi-target run has returned with both records written after a port
\* task of target 1 panicked
C28_Witness ==
    /\ cfg.multi
    /\ \E t \in panicked : t[1] = 1
    /\ RunReturnedWithAllRecords
    /\ Cardinality(Hosts) = NumTargets

WaitsForBudget(t) == pc[t] \in {"acq_host", "acq_global"}

InitInterval ==
    /\ cfg = IdleConfig
    /\ InitRun
    /\ bk = BkIdle
    /\ pp = PpIdle
    /\ rs = RsIdle
    /\ tp = TpIdle
    /\ dh = DhIdle
    /\ cx = CxIdle
    /\ \E site \in {"limiter", "ticker"}, rate \in 0..MaxRate :
         iv = [phase |-> "start", site |-> site, rate |-> rate, ms |-> 0,
               timer |-> "none"]

notIntervalVars == <<cfg, mainVars, hostVars, taskVars, histVars, rlVars, bk, pp, rs, tp, dh, cx>>

\* tokio::time::interval(period): panics for a period of zero
IntervalTimer(ms) == IF ms = 0 THEN "panicked" ELSE "ticking"

\* ratelimiter.rs:16-19: interval_ms, and the interval of the refill task
LimiterInterval ==
    /\ iv.phase = "start" /\ iv.site = "limiter"
    /\ iv' = [iv EXCEPT !.phase = "built", !.ms = IntervalMs(iv.rate),
                        !.timer = IntervalTimer(IntervalMs(iv.rate))]
    /\ UNCHANGED notIntervalVars

\* lib.rs:46: the interval of the ticker, for qps = Some(q)
TickerInterval ==
    /\ iv.phase = "start" /\ iv.site = "ticker"
    /\ iv' = [iv EXCEPT !.phase = "built", !.ms = PacingMs(iv.rate),
                        !.timer = IntervalTimer(PacingMs(iv.rate))]
    /\ UNCHANGED notIntervalVars

NextInterval == LimiterInterval \/ TickerInterval

SpecInterval == InitInterval /\ [][NextInterval]_vars

(***************************************************************************)
(* Properties of expand_cidr (specification SpecCidr).                     *)
(***************************************************************************)
CidrReturned == cx.phase = "returned"

\* the addresses that share the first len bits with ip, for len >= 16
BlockLows(ip, len) ==
    {n \in 0..65535 : n \div (2 ^ (32 - len)) = Low16(ip) \div (2 ^ (32 - len))}

\* the low bits of the network address (host bits all 0) and of the
\* broadcast address (host bits all 1) of a block
EndLows(ip, len) ==
    {n \in BlockLows(ip, len) :
        n % (2 ^ (32 - len)) \in {0, 2 ^ (32 - len) - 1}}

\* C31: expand_cidr of an IPv4 block of a prefix length of at most 30
\* returns every address of the block but the network and the broadcast
\* address, each once; a text that is no block gives an error and no list.
C31_ExpandCidrUsableHosts ==
    CidrReturned =>
        /\ (cx.valid /\ cx.len <= 30) =>
              /\ cx.result.kind = "Ok"
              /\ {cx.result.ips[i] : i \in 1..Len(cx.result.ips)}
                   = {WithLow16(cx.ip, n) :
                        n \in BlockLows(cx.ip, cx.len) \ EndLows(cx.ip, cx.len)}
              /\ \A i, j \in 1..Len(cx.result.ips) :
                   cx.result.ips[i] = cx.result.ips[j] => i = j
        /\ ~cx.valid => cx.result.kind = "Err" /\ cx.result.ips = <<>>

\* 10.0.0.13/29, written with host bits set, gave the six addresses
\* 10.0.0.9 to 10.0.0.14
C31_Witness ==
    /\ CidrReturned
    /\ cx.valid /\ cx.ip = <<10, 0, 0, 13>> /\ cx.len = 29
    /\ cx.result.kind = "Ok"
    /\ cx.result.ips = [i \in 1..6 |-> <<10, 0, 0, 8 + i>>]

(***************************************************************************)
(* Properties of the intervals (specification SpecInterval).               *)
(***************************************************************************)
IntervalBuilt == iv.phase = "built"

\* C32: for every rate of at least 1 the interval of the refill task and
\* of the ticker is max(1, 1000 / rate) milliseconds, never 0.
C32_IntervalAtLeastOneMs ==
    (IntervalBuilt /\ iv.rate >= 1) =>
        /\ iv.ms = Max(1, 1000 \div iv.rate)
        /\ iv.ms # 0

\* up to a rate of 1000 the interval is 1000 / rate, at least 1 ms, and
\* the timer is built
IntervalUpTo1000 ==
    (IntervalBuilt /\ iv.rate >= 1 /\ iv.rate <= 1000) =>
        /\ iv.ms = Max(1, 1000 \div iv.rate)
        /\ iv.timer = "ticking"

\* above a rate of 1000 the interval is 0 and the timer is not built
IntervalAbove1000 ==
    (IntervalBuilt /\ iv.rate > 1000) => (iv.ms = 0 /\ iv.timer = "panicked")

(***************************************************************************)
(* Termination of the scan command (specification SpecFair).               *)
(***************************************************************************)
\* every port task has ended, every host scan has returned, the writer has
\* drained the channel of lines, and the run has returned
RunComplete ==
    /\ main_pc = "returned"
    /\ \A t \in Tasks : pc[t] = "done"
    /\ \A h \in Hosts : hpc[h] = "finished"
    /\ lines = <<>> /\ ~MidRecord
    /\ cfg.multi => writer_done

\* the run has ended: completed, or refused for its port spec
RunEnded == main_pc = "failed" \/ RunComplete

\* C33: every run terminates: under fair scheduling every port task ends,
\* every host scan returns, the writer drains the sink and the run returns.
C33_EveryRunTerminates == <>RunEnded

\* a run that builds its rate limiter inside the runtime, or builds none,
\* and that has a port to scan
StartsClean == ~(cfg.multi /\ RateConfigured) /\ ~cfg.ports_empty

\* every run that starts clean terminates, also one in which a port task
\* panics
CleanRunsTerminate == StartsClean => <>RunEnded

\* a run stops short of its end only where main or a host scan panicked
StopsOnlyByPanic ==
    ~(ENABLED Next) =>
        \/ RunEnded
        \/ main_pc = "panicked"
        \/ \E h \in AllHosts : hpc[h] = "panicked"

(***************************************************************************)
(* Empty work lists (specifications Spec and SpecDiscover).                *)
(***************************************************************************)
\* C34: a scan of an empty port list returns an empty list normally: the
\* host scan does not fail, and what it returns is empty.
C34_EmptyPortListReturnsEmpty ==
    cfg.ports_empty =>
        /\ main_pc # "panicked"
        /\ \A h \in AllHosts :
             /\ hpc[h] # "panicked"
             /\ hpc[h] = "finished" => result[h] = <<>>

\* the same for a sweep of an empty address list
EmptySweepReturnsEmpty ==
    (dh.phase # "idle" /\ ~FromCommand /\ Sweep.ips = <<>>) =>
        /\ dh.phase # "panicked"
        /\ SweepReturned => Sweep.live = <<>>

\* no scan of an empty port list ever returns
EmptyPortListNeverReturns ==
    cfg.ports_empty => \A h \in AllHosts : hpc[h] \in {"pending", "spawned", "panicked"}

\* no sweep of an empty address list ever returns
EmptySweepNeverReturns ==
    (dh.phase # "idle" /\ ~FromCommand /\ Sweep.ips = <<>>) =>
        dh.phase \in {"call", "panicked"}

(***************************************************************************)
(* The order of the records of a multi-target run (specification Spec).    *)
(***************************************************************************)
\* the targets whose record has been handed over, in the order in which
\* the records reach the sink: those written, then those in the channel
HandedOver ==
    [i \in 1..Len(SinkRecords) |-> SinkRecords[i].line.target]
        \o [i \in 1..Len(lines) |-> lines[i].target]

HostLaunched(h) == hpc[h] # "pending"

RecordsFollowTargetList ==
    /\ \A h \in Hosts : (h > 1 /\ HostLaunched(h)) =>
            \E i \in 1..Len(HandedOver) : HandedOver[i] = h - 1
    /\ HandedOver = [i \in 1..Len(HandedOver) |-> i]

\* C35: in a multi-target run with a host concurrency of 1 the scan of
\* target i+1 is not launched before the record of target i has been
\* handed over, and the records reach the sink in the order of the targets.
C35_RecordsInTargetOrder ==
    (cfg.multi /\ cfg.host_concurrency = 1) => RecordsFollowTargetList

\* the same for the runs that have a port to scan, and for a host
\* concurrency of 0, which is run as 1
RecordsInTargetOrderWithPorts ==
    (cfg.multi /\ HostConc(cfg) = 1 /\ ~cfg.ports_empty) => RecordsFollowTargetList

\* with a host concurrency of 2 the records may come in either order
RecordsInTargetOrderAlways ==
    (cfg.multi /\ ~cfg.ports_empty) => RecordsFollowTargetList

(***************************************************************************)
(* Overflow of the backoff delay (specification SpecBackoff).              *)
(***************************************************************************)
\* the product is base * 2^min(k,6), or u64::MAX where that does not fit
BackoffProductSaturates ==
    BackoffComputed =>
        LET p == U64MulSmall(bk.base, 2 ^ CapShift(bk.attempts))
        IN  bk.exp = IF p.carry = 0 THEN p.limbs ELSE U64Max

\* C36: the backoff delay never overflows: the product saturates, and the
\* sum of the product and the jitter fits in 64 bits.
C36_BackoffNeverOverflows ==
    /\ BackoffProductSaturates
    /\ BackoffComputed =>
          /\ bk.kind = "ok"
          /\ U64AddCarry(bk.exp, bk.jitter).carry = 0

\* the sum overflows only where the product and a quarter of it do not fit
\* in 64 bits together, and there it does for some jitter
BackoffSumOverflowsNearMax ==
    BackoffComputed =>
        (bk.kind # "ok" => U64AddCarry(bk.exp, U64Div4(bk.exp)).carry > 0)

(***************************************************************************)
(* Empty tokens of a port spec (specification SpecParse).                  *)
(***************************************************************************)
\* the tokens of the spec that are not empty or white space
NonBlankTokens == SelectSeq(pp.tokens, LAMBDA t : t.kind # "blank")

\* C37: parse_ports ignores empty tokens: a spec that is empty or holds only
\* commas and white space gives an empty list without error, and a spec
\* with empty tokens gives what the spec without them gives.
C37_EmptyTokensIgnored ==
    ParseReturned =>
        IF NonBlankTokens = <<>>
        THEN pp.ret = ReturnOk(<<>>)
        ELSE pp.ret = ParsePorts(JoinComma(NonBlankTokens))

\* "22, ,3" gave the ports 3 and 22
C37_Witness ==
    /\ ParseReturned
    /\ pp.tokens = <<SingleToken(22), BlankToken(<<" ">>), SingleToken(3)>>
    /\ pp.spec = <<"2", "2", ",", " ", ",", "3">>
    /\ pp.ret = ReturnOk(<<3, 22>>)

\* the empty spec, "," and ", ," gave an empty list and no error
BlankSpecsReturnEmpty ==
    (ParseReturned /\ pp.spec \in {<<>>, <<",">>, <<" ", ",", ",">>}) =>
        pp.ret = ReturnOk(<<>>)

=============================================================================
